---------------------------- MODULE Spec2Model ----------------------------
(***************************************************************************)
(* Network simulation engine: device actors (core/device.py) and the       *)
(* orchestrator with its fault lifecycle, background loops and event queue *)
(* (core/simulator.py), built on the topology generator's adjacency lookup *)
(* (core/topology_generator.py).                                           *)
(*                                                                         *)
(* Optional values (Python None) are encoded as sequences: None is <<>>    *)
(* and a present value v is <<v>>.  Time is a discrete clock; TicksPerSec  *)
(* clock units make one second.                                            *)
(***************************************************************************)
EXTENDS Integers, Sequences, FiniteSets, TLC

None == <<>>
Some(v) == <<v>>
Val(o) == o[1]

Range(s) == {s[i] : i \in 1..Len(s)}

\* ------------------------------------------------------------------ bounds
MaxTime == 5
MaxFaults == 2
MaxDuration == 2
TicksPerSec == 2

\* ------------------------------------------------------- the input topology
DeviceOrder == <<"A", "B", "C">>
Devices == Range(DeviceOrder)
Hosts == Devices \cup {"Z"}

\* core/device.py InterfaceState
UP == "up"
DOWN == "down"
ADMIN_DOWN == "admin_down"
InterfaceStates == {UP, DOWN, ADMIN_DOWN}

\* Interface addressing of the configured devices: dotted quads as octet tuples.
IfConfig ==
    [d \in Devices |->
        CASE d = "A" -> [eth0 |-> [ip_address |-> <<192, 168, 1, 1>>, subnet_mask |-> <<255, 255, 255, 0>>],
                         eth1 |-> [ip_address |-> <<10, 0, 0, 1>>, subnet_mask |-> <<255, 0, 0, 0>>]]
          [] d = "B" -> [eth0 |-> [ip_address |-> <<192, 168, 1, 2>>, subnet_mask |-> <<255, 255, 255, 0>>]]
          [] d = "C" -> [eth0 |-> [ip_address |-> <<192, 168, 1, 3>>, subnet_mask |-> <<255, 255, 255, 0>>]]]

IfNames == {"eth0", "eth1"}

\* _determine_device_type on the parsed configurations: A runs a routing
\* protocol, B carries VLANs, C has neither.
DeviceTypes == [d \in Devices |-> CASE d = "A" -> "router" [] d = "B" -> "switch" [] d = "C" -> "endpoint"]

\* The undirected graph of the input topology: the three devices share the
\* subnet 192.168.1.0/24, so every pair is linked (a full mesh).
TopologyGraph == {{"A", "B"}, {"A", "C"}, {"B", "C"}}
TopologyAdjacency(d) == {h \in Devices : {d, h} \in TopologyGraph /\ h # d}

\* topology.links: one NetworkLink per edge of the graph, and a link whose
\* target (Z) is not a device of the topology.
TopologyLinks ==
    <<[source_device |-> "A", target_device |-> "B"],
      [source_device |-> "A", target_device |-> "C"],
      [source_device |-> "B", target_device |-> "C"],
      [source_device |-> "C", target_device |-> "Z"]>>

\* NetworkSimulator.__init__ builds a fresh TopologyGenerator, whose topology
\* attribute is None until generate_topology runs on that instance; the
\* simulator never calls it.
GeneratorTopology == None

\* A fixed enumeration order for sets of hostnames (graph iteration order).
RECURSIVE SeqOfOrder(_, _)
SeqOfOrder(order, S) ==
    IF order = <<>> THEN <<>>
    ELSE IF Head(order) \in S THEN <<Head(order)>> \o SeqOfOrder(Tail(order), S)
         ELSE SeqOfOrder(Tail(order), S)

\* TopologyGenerator.get_device_neighbors
get_device_neighbors(device) ==
    IF GeneratorTopology = None THEN <<>>
    ELSE IF device \in Devices
         THEN SeqOfOrder(DeviceOrder, {h \in Devices : {device, h} \in Val(GeneratorTopology) /\ h # device})
         ELSE <<>>

\* ------------------------------------------------------------------- state
VARIABLES
    simulation_running,   \* NetworkSimulator.simulation_running
    simulation_paused,    \* NetworkSimulator.simulation_paused
    active_faults,        \* sequence of references (indices into fault_history)
    fault_history,        \* sequence of FaultInjection records
    event_queue,          \* NetworkSimulator.event_queue
    events,               \* NetworkSimulator.events
    interfaces,           \* device -> interface name -> InterfaceState
    neighbors,            \* device -> list of hostnames
    dev_thread,           \* device -> "new" | "test" | "get" | "dead": the thread's place in run()
    dev_running,          \* device -> NetworkDevice.running
    message_queue,        \* device -> inbox
    packets_received,     \* device -> statistics['packets_received']
    last_reply,           \* device -> the reply built by the last handled message
    errors,               \* device -> statistics['errors']
    routing_table,        \* device -> set of <<destination, next_hop>> entries
    processed,            \* history: device -> the messages passed to process_message, in order
    enqueued,             \* history: device -> the messages put on the inbox, in order
    status_taken,         \* device -> the interfaces copied by the latest get_status() and
                          \* the values its shared objects held at the return
    fault_thread,         \* "none" | "alive" | "exited"
    fault_wake,           \* clock value at which the fault loop's sleep ends
    event_thread,         \* "none" | "check" | "wait" | "exited"
    now,                  \* the clock, time.time()
    not_found,            \* the latest inject_fault or send_packet call ended with "device not found"
    last,                 \* history: the latest direct call on a device
    ever_stopped,         \* history: stop_simulation has taken effect once
    fault_ghost,          \* history, per fault: see NewGhost
    topology_interfaces,  \* the interfaces of topology.devices, in iteration order
    issues,               \* the issues returned by the latest validate_network (None: no call yet)
    statistics,           \* NetworkSimulator.statistics
    event_handlers,       \* NetworkSimulator.event_handlers: kind -> list of handlers
    handler_calls,        \* history: the handler invocations, <<handler id, position of the event in the log>>
    stats_thread,         \* "none" | "alive" | "exited"
    injecting             \* the fault an inject_fault call has appended and not applied yet (None: no such call)

vars == <<simulation_running, simulation_paused, active_faults, fault_history,
          event_queue, events, interfaces, neighbors, dev_thread, dev_running,
          message_queue, packets_received, last_reply, errors, routing_table,
          processed, enqueued, status_taken, fault_thread, fault_wake,
          event_thread, now, not_found, last, ever_stopped, fault_ghost,
          topology_interfaces, issues, statistics, event_handlers, handler_calls,
          stats_thread, injecting>>

flagVars == <<simulation_running, simulation_paused>>
faultVars == <<active_faults, fault_history, fault_ghost>>
eventVars == <<event_queue, events>>
statVars == <<packets_received, last_reply, errors, routing_table, processed>>
actorVars == <<dev_thread, dev_running, message_queue, statVars>>
threadVars == <<fault_thread, fault_wake, event_thread>>
validatorVars == <<topology_interfaces, issues>>
dispatchVars == <<statistics, event_handlers, handler_calls, stats_thread>>

\* ------------------------------------------------------- device operations
\* NetworkDevice._initialize_interfaces: every configured interface starts UP.
InitialInterfaces == [d \in Devices |-> [n \in DOMAIN IfConfig[d] |-> UP]]

\* Mutant: the host is appended without the membership test.
add_neighbor_unchecked(list, neighbor_hostname) == Append(list, neighbor_hostname)

\* NetworkDevice.add_neighbor, on one neighbor list
add_neighbor(list, neighbor_hostname) ==
    IF neighbor_hostname \notin Range(list) THEN Append(list, neighbor_hostname) ELSE list

\* list.remove: drops the first element equal to x
RECURSIVE ListRemove(_, _)
ListRemove(list, x) ==
    IF list = <<>> THEN <<>>
    ELSE IF Head(list) = x THEN Tail(list)
         ELSE <<Head(list)>> \o ListRemove(Tail(list), x)

\* NetworkDevice.remove_neighbor, on one neighbor list
remove_neighbor(list, neighbor_hostname) ==
    IF neighbor_hostname \in Range(list) THEN ListRemove(list, neighbor_hostname) ELSE list

\* Mutant: a name the device does not own gets an entry of its own.
set_interface_state_creating(ifs, interface_name, state) ==
    [n \in DOMAIN ifs \cup {interface_name} |-> IF n = interface_name THEN state ELSE ifs[n]]

\* NetworkDevice.set_interface_state, on one device's interface table
set_interface_state(ifs, interface_name, state) ==
    IF interface_name \in DOMAIN ifs THEN [ifs EXCEPT ![interface_name] = state] ELSE ifs

\* _initialize_devices: each device's neighbors are seeded from the
\* simulator's own topology generator.
RECURSIVE AddAll(_, _)
AddAll(list, hs) ==
    IF hs = <<>> THEN list ELSE AddAll(add_neighbor(list, Head(hs)), Tail(hs))

InitialNeighbors == [d \in Devices |-> AddAll(<<>>, get_device_neighbors(d))]

\* ----------------------------------------------------------- fault model
FaultTypes == {"interface_down", "link_failure", "high_cpu", "memory_leak", "packet_loss", "bogus"}
Durations == {None, Some(0)} \cup {Some(k) : k \in 1..MaxDuration}
TargetInterfaces == {None} \cup {Some(n) : n \in IfNames}

\* Python truthiness of an optional number: None and 0 are false.
Truthy(o) == o # None /\ Val(o) # 0

\* set every interface of one device's table to a state
SetAll(ifs, state) == [n \in DOMAIN ifs |-> state]

\* _apply_fault, link_failure branch: walk a copy of the target's neighbor list
RECURSIVE UnlinkAll(_, _, _)
UnlinkAll(nbrs, target, copy) ==
    IF copy = <<>> THEN nbrs
    ELSE LET n == Head(copy)
             n1 == [nbrs EXCEPT ![target] = remove_neighbor(nbrs[target], n)]
             n2 == IF n \in Devices
                   THEN [n1 EXCEPT ![n] = remove_neighbor(n1[n], target)]
                   ELSE n1
         IN UnlinkAll(n2, target, Tail(copy))

\* Mutant: an interface fault takes every interface of the device down,
\* whatever its target interface.
ApplyFaultInterfacesWholeDevice(fault, ifs) ==
    IF fault.fault_type = "interface_down"
    THEN [ifs EXCEPT ![fault.target_device] = SetAll(ifs[fault.target_device], DOWN)]
    ELSE ifs

\* NetworkSimulator._apply_fault: the interface tables after applying the fault
ApplyFaultInterfaces(fault, ifs) ==
    LET d == fault.target_device IN
    IF fault.fault_type = "interface_down"
    THEN IF fault.target_interface # None
         THEN [ifs EXCEPT ![d] = set_interface_state(ifs[d], Val(fault.target_interface), DOWN)]
         ELSE [ifs EXCEPT ![d] = SetAll(ifs[d], DOWN)]
    ELSE ifs


\* Mutant: the link is cut on the target's side only.
ApplyFaultNeighborsOneSided(fault, nbrs) ==
    IF fault.fault_type = "link_failure"
    THEN [nbrs EXCEPT ![fault.target_device] = <<>>]
    ELSE nbrs

\* NetworkSimulator._apply_fault: the neighbor lists after applying the fault
ApplyFaultNeighbors(fault, nbrs) ==
    IF fault.fault_type = "link_failure"
    THEN UnlinkAll(nbrs, fault.target_device, nbrs[fault.target_device])
    ELSE nbrs

\* _remove_fault, link_failure branch: re-add the topology's neighbors
RECURSIVE RelinkAll(_, _, _)
RelinkAll(nbrs, target, list) ==
    IF list = <<>> THEN nbrs
    ELSE LET n == Head(list)
             n1 == [nbrs EXCEPT ![target] = add_neighbor(nbrs[target], n)]
             n2 == IF n \in Devices
                   THEN [n1 EXCEPT ![n] = add_neighbor(n1[n], target)]
                   ELSE n1
         IN RelinkAll(n2, target, Tail(list))


\* Mutant: reverting brings every interface of the device up, whatever the
\* fault's target interface.
RemoveFaultInterfacesWholeDevice(fault, ifs) ==
    IF fault.fault_type = "interface_down"
    THEN [ifs EXCEPT ![fault.target_device] = SetAll(ifs[fault.target_device], UP)]
    ELSE ifs

\* Mutant: reverting a fault without a target interface restores nothing.
RemoveFaultInterfacesTargetOnly(fault, ifs) ==
    IF fault.fault_type = "interface_down" /\ fault.target_interface # None
    THEN [ifs EXCEPT ![fault.target_device] =
             set_interface_state(ifs[fault.target_device], Val(fault.target_interface), UP)]
    ELSE ifs

\* NetworkSimulator._remove_fault: the interface tables after reverting
RemoveFaultInterfaces(fault, ifs) ==
    LET d == fault.target_device IN
    IF fault.fault_type = "interface_down"
    THEN IF fault.target_interface # None
         THEN [ifs EXCEPT ![d] = set_interface_state(ifs[d], Val(fault.target_interface), UP)]
         ELSE [ifs EXCEPT ![d] = SetAll(ifs[d], UP)]
    ELSE ifs

\* Mutant: reverting re-adds the target's adjacent devices of the input
\* topology to the target's own list only.
RemoveFaultNeighborsOneSided(fault, nbrs) ==
    IF fault.fault_type = "link_failure"
    THEN [nbrs EXCEPT ![fault.target_device] =
             AddAll(@, SeqOfOrder(DeviceOrder, TopologyAdjacency(fault.target_device)))]
    ELSE nbrs

\* NetworkSimulator._remove_fault: the neighbor lists after reverting
RemoveFaultNeighbors(fault, nbrs) ==
    IF fault.fault_type = "link_failure"
    THEN RelinkAll(nbrs, fault.target_device, get_device_neighbors(fault.target_device))
    ELSE nbrs

\* inject_fault: start_time is taken only when the duration is truthy
FaultStartTime(duration, t) == IF Truthy(duration) THEN Some(t) ELSE None

\* FaultInjection(...) as built by inject_fault (the parameters mapping is
\* never read by the engine and is left out)
NewFault(fault_type, target_device, target_interface, duration, t) ==
    [fault_type |-> fault_type,
     target_device |-> target_device,
     target_interface |-> target_interface,
     duration |-> duration,
     start_time |-> FaultStartTime(duration, t)]


\* Mutant: a missing duration is taken as already elapsed.
ExpiredWithoutDuration(fault, current_time) ==
    \/ fault.duration = None
    \/ /\ Truthy(fault.duration)
       /\ Truthy(fault.start_time)
       /\ current_time - Val(fault.start_time) >= Val(fault.duration)

\* _process_faults: the test deciding that a fault is past its deadline
Expired(fault, current_time) ==
    /\ Truthy(fault.duration)
    /\ Truthy(fault.start_time)
    /\ current_time - Val(fault.start_time) >= Val(fault.duration)

\* time.sleep(1) of the fault loop, in clock units
ExpirySleep == 1 * TicksPerSec

\* SimulationEvent as built by _record_event (timestamp, description and
\* payload are never read by the engine and are left out)
NewEvent(event_type, source_device, target_device) ==
    [event_type |-> event_type, source_device |-> source_device, target_device |-> target_device]

\* Does the fault, when reverted, set interface n of device d to UP?
RevertsInterface(fault, d, n) ==
    /\ fault.fault_type = "interface_down"
    /\ fault.target_device = d
    /\ n \in DOMAIN IfConfig[d]
    /\ (fault.target_interface = None \/ fault.target_interface = Some(n))

\* History kept per fault: the clock at injection (t0), whether the simulation
\* was running at injection and has not been stopped since (live), whether
\* set_interface_state was called directly on the fault's interface since
\* (explicit), whether an expiring fault reverted that interface since
\* (reverted), and the length of the target's neighbor list just before injection (pre).
NewGhost(t, target_device) ==
    [t0 |-> t, live |-> simulation_running, explicit |-> FALSE, reverted |-> FALSE,
     pre |-> Len(neighbors[target_device])]

\* History of direct set_interface_state calls: the latest call's device,
\* interface name and requested state, and the state the interface had before
\* the call ("absent" for a name the device does not own).
NoCall == [device |-> "", name |-> "", state |-> "", before |-> ""]
SetCall(d, interface_name, state) ==
    [device |-> d, name |-> interface_name, state |-> state,
     before |-> IF interface_name \in DOMAIN interfaces[d] THEN interfaces[d][interface_name] ELSE "absent"]

\* --------------------------------------------------------------- Init
\* NetworkSimulator.__init__: the statistics dict
InitialStatistics ==
    [total_packets |-> 0, total_errors |-> 0, devices_online |-> 0,
     devices_offline |-> 0, links_active |-> 0, links_failed |-> 0]

\* NetworkSimulator.__init__: the event_handlers dict, an empty list per kind
EventKinds ==
    {"device_start", "device_stop", "link_failure", "link_recovery",
     "packet_sent", "packet_received", "error_occurred"}

InitialEventHandlers == [k \in EventKinds |-> <<>>]

InitSimulator ==
    /\ simulation_running = FALSE
    /\ simulation_paused = FALSE
    /\ active_faults = <<>>
    /\ fault_history = <<>>
    /\ event_queue = <<>>
    /\ events = <<>>
    /\ interfaces = InitialInterfaces
    /\ neighbors = InitialNeighbors
    /\ dev_thread = [d \in Devices |-> "new"]
    /\ dev_running = [d \in Devices |-> TRUE]
    /\ message_queue = [d \in Devices |-> <<>>]
    /\ packets_received = [d \in Devices |-> 0]
    /\ last_reply = [d \in Devices |-> None]
    /\ errors = [d \in Devices |-> 0]
    /\ routing_table = [d \in Devices |-> {}]
    /\ processed = [d \in Devices |-> <<>>]
    /\ enqueued = [d \in Devices |-> <<>>]
    /\ status_taken = [d \in Devices |-> None]
    /\ fault_thread = "none"
    /\ fault_wake = 0
    /\ event_thread = "none"
    /\ now = 1
    /\ not_found = FALSE
    /\ last = NoCall
    /\ ever_stopped = FALSE
    /\ fault_ghost = <<>>
    /\ statistics = InitialStatistics
    /\ event_handlers = InitialEventHandlers
    /\ handler_calls = <<>>
    /\ stats_thread = "none"
    /\ injecting = None

\* The interfaces of the topology's device configurations, flattened in the
\* order topology.devices.items() and config.interfaces are iterated.
ConfiguredInterfaces ==
    <<[hostname |-> "A", name |-> "eth0", ip_address |-> Some(IfConfig["A"]["eth0"].ip_address)],
      [hostname |-> "A", name |-> "eth1", ip_address |-> Some(IfConfig["A"]["eth1"].ip_address)],
      [hostname |-> "B", name |-> "eth0", ip_address |-> Some(IfConfig["B"]["eth0"].ip_address)],
      [hostname |-> "C", name |-> "eth0", ip_address |-> Some(IfConfig["C"]["eth0"].ip_address)]>>

Init ==
    /\ InitSimulator
    /\ topology_interfaces = ConfiguredInterfaces
    /\ issues = None

\* ------------------------------------------------ orchestrator lifecycle
\* The devices start_simulation reaches before Thread.start() raises
\* RuntimeError on a thread that was started before.
RECURSIVE StartablePrefix(_)
StartablePrefix(order) ==
    IF order = <<>> THEN {}
    ELSE IF dev_thread[Head(order)] # "new" THEN {}
         ELSE {Head(order)} \cup StartablePrefix(Tail(order))

\* NetworkSimulator.start_simulation
StartSimulation ==
    /\ UNCHANGED last
    /\ IF simulation_running
       THEN UNCHANGED <<flagVars, dev_thread, threadVars, stats_thread>>
       ELSE /\ simulation_running' = TRUE
            /\ simulation_paused' = FALSE
            /\ dev_thread' = [d \in Devices |->
                                IF d \in StartablePrefix(DeviceOrder) THEN "test" ELSE dev_thread[d]]
            /\ IF StartablePrefix(DeviceOrder) = Devices
               THEN /\ event_thread' = "check"
                    /\ fault_thread' = "alive"
                    /\ fault_wake' = now
                    /\ stats_thread' = "alive"
               ELSE UNCHANGED <<threadVars, stats_thread>>
    /\ UNCHANGED <<faultVars, eventVars, interfaces, neighbors, dev_running,
                   message_queue, statVars, now, ever_stopped, status_taken, validatorVars,
                   statistics, event_handlers, handler_calls, injecting, enqueued, not_found>>

\* NetworkSimulator.stop_simulation
StopSimulation ==
    /\ UNCHANGED last
    /\ IF ~simulation_running
       THEN UNCHANGED <<simulation_running, dev_running, ever_stopped, fault_ghost>>
       ELSE /\ simulation_running' = FALSE
            /\ dev_running' = [d \in Devices |-> FALSE]
            /\ ever_stopped' = TRUE
            /\ fault_ghost' = [k \in DOMAIN fault_ghost |-> [fault_ghost[k] EXCEPT !.live = FALSE]]
    /\ UNCHANGED <<simulation_paused, active_faults, fault_history, eventVars, interfaces,
                   neighbors, dev_thread, message_queue, statVars,
                   threadVars, now, status_taken, validatorVars, dispatchVars, injecting, enqueued, not_found>>

\* NetworkSimulator.pause_simulation
PauseSimulation ==
    /\ UNCHANGED last
    /\ simulation_paused' = IF simulation_running THEN TRUE ELSE simulation_paused
    /\ UNCHANGED <<simulation_running, faultVars, eventVars, interfaces, neighbors,
                   actorVars, threadVars, now, ever_stopped, status_taken, validatorVars, dispatchVars, injecting, enqueued, not_found>>

\* NetworkSimulator.resume_simulation
ResumeSimulation ==
    /\ UNCHANGED last
    /\ simulation_paused' = IF simulation_running THEN FALSE ELSE simulation_paused
    /\ UNCHANGED <<simulation_running, faultVars, eventVars, interfaces, neighbors,
                   actorVars, threadVars, now, ever_stopped, status_taken, validatorVars, dispatchVars, injecting, enqueued, not_found>>


\* Mutant: the fault_injected event is recorded before the device is validated.
InjectFaultUnknownRecordsEvent(target_device) ==
    /\ event_queue' = Append(event_queue, NewEvent("fault_injected", target_device, None))
    /\ UNCHANGED <<faultVars, events, interfaces, neighbors>>

\* ------------------------------------------------------- fault injection
\* inject_fault, the branch taken when the target device is not in the table
InjectFaultUnknown(target_device) ==
    UNCHANGED <<faultVars, eventVars, interfaces, neighbors>>

\* inject_fault, the branch taken for a device of the table
InjectFaultKnown(fault_type, target_device, target_interface, duration) ==
    LET fault == NewFault(fault_type, target_device, target_interface, duration, now)
        ref == Len(fault_history) + 1
    IN /\ active_faults' = Append(active_faults, ref)
       /\ fault_history' = Append(fault_history, fault)
       /\ fault_ghost' = Append(fault_ghost, NewGhost(now, target_device))
       /\ interfaces' = ApplyFaultInterfaces(fault, interfaces)
       /\ neighbors' = ApplyFaultNeighbors(fault, neighbors)
       /\ event_queue' = Append(event_queue, NewEvent("fault_injected", target_device, None))
       /\ UNCHANGED events

\* NetworkSimulator.inject_fault
InjectFault(fault_type, target_device, target_interface, duration) ==
    /\ IF target_device \notin Devices
       THEN InjectFaultUnknown(target_device)
       ELSE /\ Len(fault_history) < MaxFaults
            /\ InjectFaultKnown(fault_type, target_device, target_interface, duration)
    /\ not_found' = (target_device \notin Devices)
    /\ UNCHANGED <<flagVars, actorVars, threadVars, now, ever_stopped, status_taken, validatorVars, dispatchVars, injecting, enqueued, last>>

\* inject_fault on a device of the table, up to and including the two appends
\* (simulator.py:205-215): the caller's thread can lose the processor between
\* the appends and _apply_fault, and the fault loop then sees the new fault
InjectFaultBegin(fault_type, target_device, target_interface, duration) ==
    LET fault == NewFault(fault_type, target_device, target_interface, duration, now)
        ref == Len(fault_history) + 1
    IN /\ injecting = None
       /\ target_device \in Devices
       /\ Len(fault_history) < MaxFaults
       /\ active_faults' = Append(active_faults, ref)
       /\ fault_history' = Append(fault_history, fault)
       /\ fault_ghost' = Append(fault_ghost, NewGhost(now, target_device))
       /\ injecting' = Some(ref)
       /\ not_found' = FALSE
       /\ UNCHANGED <<flagVars, eventVars, interfaces, neighbors, actorVars, threadVars, now,
                      ever_stopped, status_taken, validatorVars, dispatchVars, enqueued, last>>

\* inject_fault, the rest of the call (simulator.py:217-224): _apply_fault and
\* the fault_injected event
InjectFaultFinish ==
    /\ injecting # None
    /\ LET fault == fault_history[Val(injecting)] IN
          /\ interfaces' = ApplyFaultInterfaces(fault, interfaces)
          /\ neighbors' = ApplyFaultNeighbors(fault, neighbors)
          /\ event_queue' = Append(event_queue, NewEvent("fault_injected", fault.target_device, None))
    /\ injecting' = None
    /\ UNCHANGED <<flagVars, faultVars, events, actorVars, threadVars, now, ever_stopped,
                   status_taken, validatorVars, dispatchVars, enqueued, not_found, last>>

\* ------------------------------------------------------ fault-expiry loop
\* Mutant: every pass removes every active fault.
FaultsToRemoveEvery(current_time) == active_faults

\* faults_to_remove: the references of the active faults past their deadline
FaultsToRemove(current_time) ==
    SelectSeq(active_faults, LAMBDA k : Expired(fault_history[k], current_time))

RECURSIVE RevertAllInterfaces(_, _)
RevertAllInterfaces(refs, ifs) ==
    IF refs = <<>> THEN ifs
    ELSE RevertAllInterfaces(Tail(refs), RemoveFaultInterfaces(fault_history[Head(refs)], ifs))

RECURSIVE RevertAllNeighbors(_, _)
RevertAllNeighbors(refs, nbrs) ==
    IF refs = <<>> THEN nbrs
    ELSE RevertAllNeighbors(Tail(refs), RemoveFaultNeighbors(fault_history[Head(refs)], nbrs))

\* active_faults.remove(fault): FaultInjection is a dataclass, so list.remove
\* drops the first entry whose fields equal the fault's
RECURSIVE RemoveFirstEqual(_, _)
RemoveFirstEqual(list, fault) ==
    IF list = <<>> THEN <<>>
    ELSE IF fault_history[Head(list)] = fault THEN Tail(list)
         ELSE <<Head(list)>> \o RemoveFirstEqual(Tail(list), fault)

RECURSIVE RemoveEach(_, _)
RemoveEach(list, refs) ==
    IF refs = <<>> THEN list
    ELSE RemoveEach(RemoveFirstEqual(list, fault_history[Head(refs)]), Tail(refs))

\* Mutant: the fault loop waits while the simulation is paused.
ProcessFaultsUnlessPaused ==
    /\ fault_thread = "alive"
    /\ now = fault_wake
    /\ ~simulation_paused
    /\ fault_wake' = now + ExpirySleep
    /\ UNCHANGED <<flagVars, faultVars, eventVars, interfaces, neighbors, actorVars,
                   fault_thread, event_thread, now, ever_stopped, status_taken, validatorVars, dispatchVars, injecting, enqueued, not_found, last>>

\* Mutant: a pass runs whenever its wake time has come, whether or not the
\* fault loop's thread is alive.
ProcessFaultsWithoutThread ==
    /\ now >= fault_wake
    /\ UNCHANGED last
    /\ IF ~simulation_running
       THEN /\ fault_thread' = "exited"
            /\ UNCHANGED <<fault_wake, faultVars, interfaces, neighbors>>
       ELSE LET gone == FaultsToRemove(now) IN
            /\ interfaces' = RevertAllInterfaces(gone, interfaces)
            /\ neighbors' = RevertAllNeighbors(gone, neighbors)
            /\ active_faults' = RemoveEach(active_faults, gone)
            /\ fault_wake' = now + ExpirySleep
            /\ fault_ghost' = [k \in DOMAIN fault_ghost |->
                  IF /\ fault_history[k].target_interface # None
                     /\ \E j \in Range(gone) :
                           RevertsInterface(fault_history[j], fault_history[k].target_device,
                                            Val(fault_history[k].target_interface))
                  THEN [fault_ghost[k] EXCEPT !.reverted = TRUE]
                  ELSE fault_ghost[k]]
            /\ UNCHANGED <<fault_thread, fault_history>>
    /\ UNCHANGED <<flagVars, eventVars, actorVars, event_thread, now, ever_stopped, status_taken, validatorVars, dispatchVars, injecting, enqueued, not_found>>

\* One pass of NetworkSimulator._process_faults: the loop test, then the scan,
\* the reverts, the removals and the sleep.
ProcessFaults ==
    /\ fault_thread = "alive"
    /\ now = fault_wake
    /\ UNCHANGED last
    /\ IF ~simulation_running
       THEN /\ fault_thread' = "exited"
            /\ UNCHANGED <<fault_wake, faultVars, interfaces, neighbors>>
       ELSE LET gone == FaultsToRemove(now) IN
            /\ interfaces' = RevertAllInterfaces(gone, interfaces)
            /\ neighbors' = RevertAllNeighbors(gone, neighbors)
            /\ active_faults' = RemoveEach(active_faults, gone)
            /\ fault_wake' = now + ExpirySleep
            /\ fault_ghost' = [k \in DOMAIN fault_ghost |->
                  IF /\ fault_history[k].target_interface # None
                     /\ \E j \in Range(gone) :
                           RevertsInterface(fault_history[j], fault_history[k].target_device,
                                            Val(fault_history[k].target_interface))
                  THEN [fault_ghost[k] EXCEPT !.reverted = TRUE]
                  ELSE fault_ghost[k]]
            /\ UNCHANGED <<fault_thread, fault_history>>
    /\ UNCHANGED <<flagVars, eventVars, actorVars, event_thread, now, ever_stopped, status_taken, validatorVars, dispatchVars, injecting, enqueued, not_found>>

\* The clock advances; the fault loop wakes as soon as its sleep has elapsed.
AdvanceTime ==
    /\ now < MaxTime
    /\ fault_thread = "alive" => now < fault_wake
    /\ now' = now + 1
    /\ UNCHANGED last
    /\ UNCHANGED <<flagVars, faultVars, eventVars, interfaces, neighbors, actorVars,
                   threadVars, ever_stopped, status_taken, validatorVars, dispatchVars, injecting, enqueued, not_found>>

\* ---------------------------------------------------- event-dispatch loop
\* _process_events, the loop test
EventLoopTest ==
    /\ event_thread = "check"
    /\ event_thread' = IF simulation_running THEN "wait" ELSE "exited"
    /\ UNCHANGED last
    /\ UNCHANGED <<flagVars, faultVars, eventVars, interfaces, neighbors, actorVars,
                   fault_thread, fault_wake, now, ever_stopped, status_taken, validatorVars, dispatchVars, injecting, enqueued, not_found>>

\* Mutant: every aggregated event counts as a packet.
update_statistics_counting_all(stats, event) ==
    [stats EXCEPT !.total_packets = @ + 1]

\* _update_statistics: the statistics dict after aggregating one event
update_statistics(stats, event) ==
    IF event.event_type = "packet_sent"
    THEN [stats EXCEPT !.total_packets = @ + 1]
    ELSE IF event.event_type = "error_occurred"
    THEN [stats EXCEPT !.total_errors = @ + 1]
    ELSE IF event.event_type = "device_start"
    THEN [stats EXCEPT !.devices_online = @ + 1]
    ELSE IF event.event_type = "device_stop"
    THEN [stats EXCEPT !.devices_offline = @ + 1]
    ELSE stats

\* Mutant: the first handler that raises ends the handling of the event.
RECURSIVE InvokeHandlersUntilRaise(_, _)
InvokeHandlersUntilRaise(handlers, position) ==
    IF handlers = <<>> THEN <<>>
    ELSE IF Head(handlers).raises THEN <<<<Head(handlers).id, position>>>>
    ELSE <<<<Head(handlers).id, position>>>> \o InvokeHandlersUntilRaise(Tail(handlers), position)

\* _handle_event, "for handler in self.event_handlers[event.event_type]": each
\* handler is called inside its own try/except, so a raising handler is logged
\* and the loop goes on.  The calls made, for the event at a position of the log.
RECURSIVE InvokeHandlers(_, _)
InvokeHandlers(handlers, position) ==
    IF handlers = <<>> THEN <<>>
    ELSE <<<<Head(handlers).id, position>>>> \o InvokeHandlers(Tail(handlers), position)

\* The handlers registered for a kind ("if event.event_type in self.event_handlers")
HandlersFor(event_type) ==
    IF event_type \in DOMAIN event_handlers THEN event_handlers[event_type] ELSE <<>>

\* Mutant: the loop takes the event recorded last.
EventLoopHandleNewest ==
    /\ event_thread = "wait"
    /\ event_queue # <<>>
    /\ events' = Append(events, event_queue[Len(event_queue)])
    /\ handler_calls' = handler_calls
          \o InvokeHandlers(HandlersFor(event_queue[Len(event_queue)].event_type), Len(events) + 1)
    /\ statistics' = update_statistics(statistics, event_queue[Len(event_queue)])
    /\ event_queue' = SubSeq(event_queue, 1, Len(event_queue) - 1)
    /\ event_thread' = "check"
    /\ UNCHANGED last
    /\ UNCHANGED <<flagVars, faultVars, interfaces, neighbors, actorVars,
                   fault_thread, fault_wake, now, ever_stopped, status_taken, validatorVars,
                   event_handlers, stats_thread, injecting, enqueued, not_found>>

\* _process_events, event_queue.get(timeout=1) returning an event, and _handle_event
EventLoopHandle ==
    /\ event_thread = "wait"
    /\ event_queue # <<>>
    /\ events' = Append(events, Head(event_queue))
    /\ handler_calls' = handler_calls
          \o InvokeHandlers(HandlersFor(Head(event_queue).event_type), Len(events) + 1)
    /\ statistics' = update_statistics(statistics, Head(event_queue))
    /\ event_queue' = Tail(event_queue)
    /\ event_thread' = "check"
    /\ UNCHANGED last
    /\ UNCHANGED <<flagVars, faultVars, interfaces, neighbors, actorVars,
                   fault_thread, fault_wake, now, ever_stopped, status_taken, validatorVars,
                   event_handlers, stats_thread, injecting, enqueued, not_found>>

\* _process_events, event_queue.get(timeout=1) raising queue.Empty
EventLoopEmpty ==
    /\ event_thread = "wait"
    /\ event_queue = <<>>
    /\ event_thread' = "check"
    /\ UNCHANGED last
    /\ UNCHANGED <<flagVars, faultVars, eventVars, interfaces, neighbors, actorVars,
                   fault_thread, fault_wake, now, ever_stopped, status_taken, validatorVars, dispatchVars, injecting, enqueued, not_found>>

\* NetworkSimulator._record_event called with an event of any kind
RecordEvent(event_type, source_device, target_device) ==
    /\ event_queue' = Append(event_queue, NewEvent(event_type, source_device, target_device))
    /\ UNCHANGED <<flagVars, faultVars, events, interfaces, neighbors, actorVars,
                   threadVars, now, ever_stopped, status_taken, validatorVars, dispatchVars, injecting,
                   enqueued, not_found, last>>

\* NetworkSimulator.register_event_handler; a handler is its identity and
\* whether calling it raises an Exception
RegisterEventHandler(event_type, handler) ==
    /\ event_handlers' =
          IF event_type \notin DOMAIN event_handlers
          THEN event_handlers @@ (event_type :> <<handler>>)
          ELSE [event_handlers EXCEPT ![event_type] = Append(@, handler)]
    /\ UNCHANGED <<flagVars, faultVars, eventVars, interfaces, neighbors, actorVars,
                   threadVars, now, ever_stopped, status_taken, validatorVars,
                   statistics, handler_calls, stats_thread, injecting, enqueued, not_found, last>>

\* ------------------------------------------------------------ send_packet
\* A packet_data dict with no key, and one that carries a ping's addresses
EmptyData == <<>>
PingData(target_ip, source_ip) == [target_ip |-> target_ip, source_ip |-> source_ip]

\* The message envelope send_packet builds: packet_data is nested under 'data'
Packet(packet_type, source_device, target_device, t, packet_data) ==
    [type |-> packet_type, source |-> source_device, target |-> target_device, timestamp |-> t,
     data |-> packet_data]

\* Mutant: a packet is delivered only to a neighbor of its source.
SendPacketToNeighbor(source_device, target_device, packet_type, packet_data) ==
    /\ source_device \in Devices /\ target_device \in Devices
    /\ target_device \in Range(neighbors[source_device])
    /\ message_queue' = [message_queue EXCEPT ![target_device] =
          Append(message_queue[target_device], Packet(packet_type, source_device, target_device, now, packet_data))]
    /\ enqueued' = [enqueued EXCEPT ![target_device] =
          Append(enqueued[target_device], Packet(packet_type, source_device, target_device, now, packet_data))]
    /\ event_queue' = Append(event_queue, NewEvent("packet_sent", source_device, Some(target_device)))
    /\ not_found' = FALSE
    /\ UNCHANGED <<flagVars, faultVars, events, interfaces, neighbors, dev_thread, dev_running,
                   statVars, threadVars, now, ever_stopped, status_taken, validatorVars, dispatchVars, injecting, last>>

\* Mutant: only the target device is validated.
SendPacketUncheckedSource(source_device, target_device, packet_type, packet_data) ==
    /\ IF target_device \notin Devices
       THEN UNCHANGED <<message_queue, enqueued, event_queue>>
       ELSE /\ message_queue' = [message_queue EXCEPT ![target_device] =
                  Append(message_queue[target_device], Packet(packet_type, source_device, target_device, now, packet_data))]
            /\ enqueued' = [enqueued EXCEPT ![target_device] =
                  Append(enqueued[target_device], Packet(packet_type, source_device, target_device, now, packet_data))]
            /\ event_queue' = Append(event_queue, NewEvent("packet_sent", source_device, Some(target_device)))
    /\ not_found' = (source_device \notin Devices \/ target_device \notin Devices)
    /\ UNCHANGED <<flagVars, faultVars, events, interfaces, neighbors, dev_thread, dev_running,
                   statVars, threadVars, now, ever_stopped, status_taken, validatorVars, dispatchVars, injecting, last>>

\* NetworkSimulator.send_packet
SendPacket(source_device, target_device, packet_type, packet_data) ==
    /\ IF source_device \notin Devices \/ target_device \notin Devices
       THEN UNCHANGED <<message_queue, enqueued, event_queue>>
       ELSE /\ message_queue' = [message_queue EXCEPT ![target_device] =
                  Append(message_queue[target_device], Packet(packet_type, source_device, target_device, now, packet_data))]
            /\ enqueued' = [enqueued EXCEPT ![target_device] =
                  Append(enqueued[target_device], Packet(packet_type, source_device, target_device, now, packet_data))]
            /\ event_queue' = Append(event_queue, NewEvent("packet_sent", source_device, Some(target_device)))
    /\ not_found' = (source_device \notin Devices \/ target_device \notin Devices)
    /\ UNCHANGED <<flagVars, faultVars, events, interfaces, neighbors, dev_thread, dev_running,
                   statVars, threadVars, now, ever_stopped, status_taken, validatorVars, dispatchVars, injecting, last>>

\* ----------------------------------------------------------- events query
\* A Python slice seq[start:] (a negative start counts from the end)
SliceFrom(seq, start) ==
    LET first == IF start < 0
                 THEN (IF Len(seq) + start < 0 THEN 0 ELSE Len(seq) + start)
                 ELSE (IF start > Len(seq) THEN Len(seq) ELSE start)
    IN SubSeq(seq, first + 1, Len(seq))

\* NetworkSimulator.get_simulation_events: "if event_type:" and "if limit:"
\* test truthiness, so an empty kind and a limit of 0 select nothing
get_simulation_events(event_type, limit) ==
    LET filtered == IF event_type # None /\ Val(event_type) # ""
                    THEN SelectSeq(events, LAMBDA e : e.event_type = Val(event_type))
                    ELSE events
    IN IF limit # None /\ Val(limit) # 0
       THEN SliceFrom(filtered, -Val(limit))
       ELSE filtered

\* ------------------------------------------------------ device public API
\* NetworkDevice.set_interface_state called directly on a device
SetInterfaceState(d, interface_name, state) ==
    /\ interfaces' = [interfaces EXCEPT ![d] = set_interface_state(interfaces[d], interface_name, state)]
    /\ fault_ghost' = [k \in DOMAIN fault_ghost |->
          IF fault_history[k].target_device = d /\ fault_history[k].target_interface = Some(interface_name)
          THEN [fault_ghost[k] EXCEPT !.explicit = TRUE]
          ELSE fault_ghost[k]]
    /\ last' = SetCall(d, interface_name, state)
    /\ UNCHANGED <<flagVars, active_faults, fault_history, eventVars, neighbors, actorVars,
                   threadVars, now, ever_stopped, status_taken, validatorVars, dispatchVars, injecting, enqueued, not_found>>

\* NetworkDevice.add_neighbor called directly on a device
AddNeighbor(d, neighbor_hostname) ==
    /\ neighbors' = [neighbors EXCEPT ![d] = add_neighbor(neighbors[d], neighbor_hostname)]
    /\ UNCHANGED <<flagVars, faultVars, eventVars, interfaces, actorVars, threadVars, now,
                   ever_stopped, status_taken, validatorVars, dispatchVars, injecting, enqueued, not_found, last>>

\* NetworkDevice.remove_neighbor called directly on a device
RemoveNeighbor(d, neighbor_hostname) ==
    /\ neighbors' = [neighbors EXCEPT ![d] = remove_neighbor(neighbors[d], neighbor_hostname)]
    /\ UNCHANGED <<flagVars, faultVars, eventVars, interfaces, actorVars, threadVars, now,
                   ever_stopped, status_taken, validatorVars, dispatchVars, injecting, enqueued, not_found, last>>

\* ------------------------------------------------------------ device actor
\* An address is a tuple of numbers; ipaddress.IPv4Address and IPv4Network
\* accept four octets of 0..255 and raise AddressValueError (a ValueError) on
\* anything else.
IsIPv4(ip) == Len(ip) = 4 /\ \A i \in 1..4 : ip[i] \in 0..255

\* The network of an interface: address AND mask, octet by octet (each mask
\* octet of a contiguous mask is 256 - 2^k, so x AND m = x - x mod (256 - m)).
NetworkOf(ip, mask) == [i \in 1..4 |-> ip[i] - (ip[i] % (256 - mask[i]))]

\* target_network.subnet_of(interface_network) for a single target address
InNetwork(target, ip, mask) == NetworkOf(target, mask) = NetworkOf(ip, mask)


\* Mutant: the interface state is not consulted.
can_reach_ip_any_state(d, ifs, target_ip) ==
    \E n \in DOMAIN ifs :
        /\ target_ip # None
        /\ IsIPv4(Val(target_ip))
        /\ InNetwork(Val(target_ip), IfConfig[d][n].ip_address, IfConfig[d][n].subnet_mask)

\* Mutant: only an interface that is DOWN is passed over.
can_reach_ip_unless_down(d, ifs, target_ip) ==
    \E n \in DOMAIN ifs :
        /\ ifs[n] # DOWN
        /\ target_ip # None
        /\ IsIPv4(Val(target_ip))
        /\ InNetwork(Val(target_ip), IfConfig[d][n].ip_address, IfConfig[d][n].subnet_mask)

\* NetworkDevice._can_reach_ip on one device's interface table; a target that
\* is None or malformed makes IPv4Network raise ValueError on every interface
\* ("except ValueError: continue"), hence False
can_reach_ip(d, ifs, target_ip) ==
    \E n \in DOMAIN ifs :
        /\ ifs[n] = UP
        /\ target_ip # None
        /\ IsIPv4(Val(target_ip))
        /\ InNetwork(Val(target_ip), IfConfig[d][n].ip_address, IfConfig[d][n].subnet_mask)


\* dict.get(key) and dict.get(key, default) on a message: a key the message
\* does not hold reads as None, or as the default
Get(message, key) == IF key \in DOMAIN message THEN message[key] ELSE None
GetOr(message, key, default) == IF key \in DOMAIN message THEN message[key] ELSE default

\* Mutant: the reply copies the request's addresses without swapping them.
handle_ping_unswapped(d, ifs, message) ==
    IF can_reach_ip(d, ifs, Get(message, "target_ip"))
    THEN Some([type |-> "ping_reply", target_ip |-> Get(message, "target_ip"),
               source_ip |-> Get(message, "source_ip"), ttl |-> GetOr(message, "ttl", 64)])
    ELSE None

\* NetworkDevice._handle_ping: the reply built (None when the ping is
\* forwarded); the addresses are read from the message's top level
handle_ping(d, ifs, message) ==
    IF can_reach_ip(d, ifs, Get(message, "target_ip"))
    THEN Some([type |-> "ping_reply", target_ip |-> Get(message, "source_ip"),
               source_ip |-> Get(message, "target_ip"), ttl |-> GetOr(message, "ttl", 64)])
    ELSE None

\* NetworkDevice.process_message: the reply built while dispatching on the kind
process_message_reply(d, ifs, message) ==
    IF message.type = "ping" THEN handle_ping(d, ifs, message) ELSE None

\* Mutant: the received counter grows by two for each message.
process_message_count_twice(count) == count + 2

\* NetworkDevice.process_message: the received counter after the message
process_message_count(count) == count + 1

\* "if route:" in _handle_routing_update: a route that is None or an empty
\* dict is skipped.  A route is encoded by its two keys, None for a missing key.
RouteTruthy(route) ==
    /\ route # None
    /\ Val(route).destination # None \/ Val(route).next_hop # None

\* NetworkDevice._handle_routing_update reached through process_message:
\* route['destination'] or route['next_hop'] raises KeyError on a missing key
Raises(d, message) ==
    /\ message.type = "routing_update"
    /\ DeviceTypes[d] = "router"
    /\ RouteTruthy(message.route)
    /\ Val(message.route).destination = None \/ Val(message.route).next_hop = None

\* NetworkDevice._handle_routing_update: the routing table after the message
\* (self.routing_table[destination] = next_hop overwrites the destination's entry)
handle_routing_update(d, table, message) ==
    IF /\ message.type = "routing_update"
       /\ DeviceTypes[d] = "router"
       /\ RouteTruthy(message.route)
       /\ ~Raises(d, message)
    THEN {e \in table : e[1] # Val(Val(message.route).destination)}
         \cup {<<Val(Val(message.route).destination), Val(Val(message.route).next_hop)>>}
    ELSE table

\* Mutant: the handler swallows the exception without counting it.
run_errors_uncounted(d, count, message) == count

\* NetworkDevice.run, "except Exception": the error counter after one iteration
run_errors(d, count, message) == IF Raises(d, message) THEN count + 1 ELSE count

\* Mutant: the inbox holds one message at most; a put on a full inbox blocks.
SendMessageBounded(d, message) ==
    /\ message_queue[d] = <<>>
    /\ message_queue' = [message_queue EXCEPT ![d] = Append(message_queue[d], message)]
    /\ enqueued' = [enqueued EXCEPT ![d] = Append(enqueued[d], message)]
    /\ UNCHANGED <<flagVars, faultVars, eventVars, interfaces, neighbors, dev_thread,
                   dev_running, statVars, threadVars, now,
                   ever_stopped, status_taken, validatorVars, dispatchVars, injecting, not_found, last>>

\* NetworkDevice.send_message
SendMessage(d, message) ==
    /\ message_queue' = [message_queue EXCEPT ![d] = Append(message_queue[d], message)]
    /\ enqueued' = [enqueued EXCEPT ![d] = Append(enqueued[d], message)]
    /\ UNCHANGED <<flagVars, faultVars, eventVars, interfaces, neighbors, dev_thread,
                   dev_running, statVars, threadVars, now,
                   ever_stopped, status_taken, validatorVars, dispatchVars, injecting, not_found, last>>

\* Mutant: the loop never consults the stop flag ("while True").
DeviceLoopTestIgnoresFlag(d) ==
    /\ dev_thread[d] = "test"
    /\ dev_thread' = [dev_thread EXCEPT ![d] = "get"]
    /\ UNCHANGED <<flagVars, faultVars, eventVars, interfaces, neighbors, dev_running,
                   message_queue, statVars, threadVars, now,
                   ever_stopped, status_taken, validatorVars, dispatchVars, injecting, enqueued, not_found, last>>

\* NetworkDevice.run, the loop test "while self.running"
DeviceLoopTest(d) ==
    /\ dev_thread[d] = "test"
    /\ dev_thread' = [dev_thread EXCEPT ![d] = IF dev_running[d] THEN "get" ELSE "dead"]
    /\ UNCHANGED <<flagVars, faultVars, eventVars, interfaces, neighbors, dev_running,
                   message_queue, statVars, threadVars, now,
                   ever_stopped, status_taken, validatorVars, dispatchVars, injecting, enqueued, not_found, last>>

\* Mutant: the loop takes the newest message of the inbox.
DeviceGetNewest(d) ==
    LET m == message_queue[d][Len(message_queue[d])] IN
    /\ dev_thread[d] = "get"
    /\ message_queue[d] # <<>>
    /\ message_queue' = [message_queue EXCEPT ![d] = SubSeq(message_queue[d], 1, Len(message_queue[d]) - 1)]
    /\ processed' = [processed EXCEPT ![d] = Append(processed[d], m)]
    /\ packets_received' = [packets_received EXCEPT ![d] = process_message_count(packets_received[d])]
    /\ last_reply' = [last_reply EXCEPT ![d] = process_message_reply(d, interfaces[d], m)]
    /\ routing_table' = [routing_table EXCEPT ![d] = handle_routing_update(d, routing_table[d], m)]
    /\ errors' = [errors EXCEPT ![d] = run_errors(d, errors[d], m)]
    /\ dev_thread' = [dev_thread EXCEPT ![d] = "test"]
    /\ UNCHANGED <<flagVars, faultVars, eventVars, interfaces, neighbors, dev_running,
                   threadVars, now, ever_stopped, status_taken, validatorVars, dispatchVars, injecting, enqueued, not_found, last>>

\* NetworkDevice.run, message_queue.get returning a message, process_message,
\* the periodic tasks and the idle sleep
DeviceGet(d) ==
    /\ dev_thread[d] = "get"
    /\ message_queue[d] # <<>>
    /\ message_queue' = [message_queue EXCEPT ![d] = Tail(message_queue[d])]
    /\ processed' = [processed EXCEPT ![d] = Append(processed[d], Head(message_queue[d]))]
    /\ packets_received' = [packets_received EXCEPT ![d] = process_message_count(packets_received[d])]
    /\ last_reply' = [last_reply EXCEPT ![d] = process_message_reply(d, interfaces[d], Head(message_queue[d]))]
    /\ routing_table' = [routing_table EXCEPT ![d] = handle_routing_update(d, routing_table[d], Head(message_queue[d]))]
    /\ errors' = [errors EXCEPT ![d] = run_errors(d, errors[d], Head(message_queue[d]))]
    /\ dev_thread' = [dev_thread EXCEPT ![d] = "test"]
    /\ UNCHANGED <<flagVars, faultVars, eventVars, interfaces, neighbors, dev_running,
                   threadVars, now, ever_stopped, status_taken, validatorVars, dispatchVars, injecting, enqueued, not_found, last>>

\* NetworkDevice.run, message_queue.get(timeout=1) raising queue.Empty
DeviceGetEmpty(d) ==
    /\ dev_thread[d] = "get"
    /\ message_queue[d] = <<>>
    /\ dev_thread' = [dev_thread EXCEPT ![d] = "test"]
    /\ UNCHANGED <<flagVars, faultVars, eventVars, interfaces, neighbors, dev_running,
                   message_queue, statVars, threadVars, now,
                   ever_stopped, status_taken, validatorVars, dispatchVars, injecting, enqueued, not_found, last>>

\* ------------------------------------------------------------------ status
\* NetworkDevice.get_status: the interfaces are rebuilt entry by entry (a
\* copy), while 'neighbors', 'routing_table' and 'statistics' are the device's
\* own list and dicts.  The record kept is the copy together with the values
\* those three objects held when the call returned.
GetStatus(d) ==
    /\ status_taken' = [status_taken EXCEPT ![d] =
          Some([interfaces |-> interfaces[d],
                neighbors |-> neighbors[d],
                routing_table |-> routing_table[d],
                statistics |-> [packets_received |-> packets_received[d], errors |-> errors[d]]])]
    /\ UNCHANGED <<flagVars, faultVars, eventVars, interfaces, neighbors, actorVars,
                   threadVars, now, ever_stopped, validatorVars, dispatchVars, injecting, enqueued, not_found, last>>

\* What the caller reads now in the value get_status returned: the copied
\* interfaces, and the present contents of the shared list and dicts.
returned_status(d) ==
    [interfaces |-> Val(status_taken[d]).interfaces,
     neighbors |-> neighbors[d],
     routing_table |-> routing_table[d],
     statistics |-> [packets_received |-> packets_received[d], errors |-> errors[d]]]

\* threading.Thread.is_alive
is_alive(d) == dev_thread[d] \in {"test", "get"}

\* NetworkSimulator.get_network_status
get_network_status ==
    [simulation_running |-> simulation_running,
     simulation_paused |-> simulation_paused,
     total_devices |-> Cardinality(Devices),
     active_faults |-> Len(active_faults),
     devices |-> [d \in Devices |->
                    [online |-> is_alive(d),
                     neighbors |-> neighbors[d],
                     interfaces |-> Cardinality(DOMAIN interfaces[d])]]]

\* ---------------------------------------------------- statistics collection
\* "source_device and target_device and source_device.is_alive() and
\* target_device.is_alive()", the devices being looked up with dict.get
LinkActive(link) ==
    /\ link.source_device \in Devices
    /\ link.target_device \in Devices
    /\ is_alive(link.source_device)
    /\ is_alive(link.target_device)

\* Mutant: a link is active as soon as one of its ends is alive.
collect_statistics_either_end(stats) ==
    LET online == Cardinality({d \in Devices : is_alive(d)})
        active == Cardinality({k \in DOMAIN TopologyLinks :
                      \/ TopologyLinks[k].source_device \in Devices
                         /\ is_alive(TopologyLinks[k].source_device)
                      \/ TopologyLinks[k].target_device \in Devices
                         /\ is_alive(TopologyLinks[k].target_device)})
    IN [stats EXCEPT !.devices_online = online,
                     !.devices_offline = Cardinality(Devices) - online,
                     !.links_active = active,
                     !.links_failed = Len(TopologyLinks) - active]

\* _collect_statistics, the body run when the simulation is not paused: the
\* four counters are recomputed from the devices' and the links' liveness
collect_statistics(stats) ==
    LET online == Cardinality({d \in Devices : is_alive(d)})
        active == Cardinality({k \in DOMAIN TopologyLinks : LinkActive(TopologyLinks[k])})
    IN [stats EXCEPT !.devices_online = online,
                     !.devices_offline = Cardinality(Devices) - online,
                     !.links_active = active,
                     !.links_failed = Len(TopologyLinks) - active]

\* One iteration of _collect_statistics: the loop test, then the pass unless
\* the simulation is paused (the sleep between passes takes any time)
CollectStatistics ==
    /\ stats_thread = "alive"
    /\ IF ~simulation_running
       THEN /\ stats_thread' = "exited"
            /\ UNCHANGED statistics
       ELSE /\ UNCHANGED stats_thread
            /\ statistics' = IF simulation_paused THEN statistics
                             ELSE collect_statistics(statistics)
    /\ UNCHANGED <<flagVars, faultVars, eventVars, interfaces, neighbors, actorVars,
                   threadVars, now, ever_stopped, status_taken, validatorVars,
                   event_handlers, handler_calls, injecting, enqueued, not_found, last>>

\* --------------------------------------------------------------- validator
\* ValidationIssue(severity, category, message, affected_devices,
\* affected_interfaces); the message is its fixed text and the address put in it.
ValidationIssue(severity, category, text, ip, affected_devices, affected_interfaces) ==
    [severity |-> severity, category |-> category, message |-> <<text, ip>>,
     affected_devices |-> affected_devices, affected_interfaces |-> affected_interfaces]

\* Mutant: an interface without an address is compared like any other.
RECURSIVE DuplicateIssuesCountingEmpty(_, _)
DuplicateIssuesCountingEmpty(list, ip_addresses) ==
    IF list = <<>> THEN <<>>
    ELSE LET interface == Head(list)
             ip == interface.ip_address
         IN IF ip \in DOMAIN ip_addresses
            THEN <<ValidationIssue("error", "ip", "Duplicate IP address", ip,
                                   <<interface.hostname, ip_addresses[ip].device>>,
                                   <<interface.name, ip_addresses[ip].interface>>)>>
                 \o DuplicateIssuesCountingEmpty(Tail(list), ip_addresses)
            ELSE DuplicateIssuesCountingEmpty(Tail(list),
                    ip_addresses @@ (ip :> [device |-> interface.hostname,
                                            interface |-> interface.name]))

\* _validate_ip_configurations, first loop: the issues appended while scanning
\* the interfaces, ip_addresses being the dict of the addresses seen so far
\* ("if interface.ip_address:" skips an empty address)
RECURSIVE DuplicateIssues(_, _)
DuplicateIssues(list, ip_addresses) ==
    IF list = <<>> THEN <<>>
    ELSE LET interface == Head(list)
             ip == interface.ip_address
         IN IF ip = None THEN DuplicateIssues(Tail(list), ip_addresses)
            ELSE IF ip \in DOMAIN ip_addresses
            THEN <<ValidationIssue("error", "ip", "Duplicate IP address", ip,
                                   <<interface.hostname, ip_addresses[ip].device>>,
                                   <<interface.name, ip_addresses[ip].interface>>)>>
                 \o DuplicateIssues(Tail(list), ip_addresses)
            ELSE DuplicateIssues(Tail(list),
                    ip_addresses @@ (ip :> [device |-> interface.hostname,
                                            interface |-> interface.name]))

\* _validate_ip_configurations, second loop: one issue for every non-empty
\* address IPv4Address rejects
RECURSIVE InvalidIssues(_)
InvalidIssues(list) ==
    IF list = <<>> THEN <<>>
    ELSE LET interface == Head(list)
             ip == interface.ip_address
         IN (IF ip # None /\ ~IsIPv4(Val(ip))
             THEN <<ValidationIssue("error", "ip", "Invalid IP address format", ip,
                                    <<interface.hostname>>, <<interface.name>>)>>
             ELSE <<>>)
            \o InvalidIssues(Tail(list))

\* NetworkValidator.validate_network: the issue list is reset, then filled;
\* the issues built from the interface addresses are modelled.
ValidateNetwork ==
    /\ issues' = Some(DuplicateIssues(topology_interfaces, <<>>) \o InvalidIssues(topology_interfaces))
    /\ UNCHANGED <<flagVars, faultVars, eventVars, interfaces, neighbors, actorVars,
                   threadVars, now, ever_stopped, status_taken, enqueued, not_found, last,
                   topology_interfaces, dispatchVars, injecting>>

\* ------------------------------------------------------------ Spec
\* Fault lifecycle under the clock.  The inject_fault calls enumerated: an
\* interface fault of every duration, whole-device, link, stress and unknown-kind
\* faults, permanent and timed, and calls naming a host (Z) that is no device.
FaultInputs ==
    ({"interface_down"} \X {"A"} \X {Some("eth0")} \X Durations)
    \cup ({"interface_down", "link_failure"} \X {"A"} \X {None} \X {None, Some(1)})
    \cup ({"high_cpu", "bogus"} \X {"A"} \X {None} \X {Some(1)})
    \cup ({"link_failure"} \X {"Z"} \X {None} \X {None, Some(1)})

Next ==
    \/ StartSimulation
    \/ StopSimulation
    \/ \E in \in FaultInputs : InjectFault(in[1], in[2], in[3], in[4])
    \/ ProcessFaults
    \/ AdvanceTime

Spec == Init /\ [][Next]_vars

\* ---------------------------------------------------------- SpecLifecycle
\* The orchestrator's start/stop/pause/resume calls in any order, with the
\* fault loop and a timed and a permanent fault.
LifecycleFaultInputs ==
    {"interface_down"} \X {"A"} \X {Some("eth0")} \X {None, Some(1)}

NextLifecycle ==
    \/ StartSimulation
    \/ StopSimulation
    \/ PauseSimulation
    \/ ResumeSimulation
    \/ \E in \in LifecycleFaultInputs : InjectFault(in[1], in[2], in[3], in[4])
    \/ ProcessFaults
    \/ AdvanceTime

SpecLifecycle == Init /\ [][NextLifecycle]_vars

\* -------------------------------------------------------------- SpecIface
\* Interface faults of device A (on one interface, on the other, on all) and a
\* fault of another kind, with direct set_interface_state calls on A's eth0.
IfaceFaultInputs ==
    ({"interface_down"} \X {"A"} \X TargetInterfaces \X {None, Some(1)})
    \cup ({"high_cpu"} \X {"A"} \X {Some("eth0")} \X {Some(1)})

NextIface ==
    \/ StartSimulation
    \/ \E in \in IfaceFaultInputs : InjectFault(in[1], in[2], in[3], in[4])
    \/ ProcessFaults
    \/ AdvanceTime
    \/ \E s \in {UP, DOWN} : SetInterfaceState("A", "eth0", s)

SpecIface == Init /\ [][NextIface]_vars

\* --------------------------------------------------------------- SpecLink
\* Neighbor lists built by direct add_neighbor/remove_neighbor calls, and link
\* faults (with and without a target interface) injected on A or B.
LinkFaultInputs ==
    {"link_failure"} \X {"A", "B"} \X {None, Some("eth0")} \X {None}

NextLink ==
    \/ \E d \in Devices : \E h \in Devices \ {d} : AddNeighbor(d, h)
    \/ AddNeighbor("A", "Z")
    \/ \E d \in Devices : \E h \in Devices \ {d} : RemoveNeighbor(d, h)
    \/ \E in \in LinkFaultInputs : InjectFault(in[1], in[2], in[3], in[4])

SpecLink == Init /\ [][NextLink]_vars

\* ------------------------------------------------------------- SpecDevice
\* One device actor (A, with two interfaces): direct set_interface_state
\* calls, messages enqueued on its inbox and its run() loop.
MaxInbox == 2
MaxReceived == 3

ProbeIPs ==
    {None, Some(<<192, 168, 1, 1>>), Some(<<192, 168, 1, 77>>), Some(<<10, 2, 3, 4>>),
     Some(<<172, 16, 0, 1>>)}

Ping(target_ip, source_ip) ==
    [type |-> "ping", target_ip |-> target_ip, source_ip |-> source_ip, ttl |-> 64]

Messages ==
    {Ping(t, Some(<<192, 168, 1, 2>>)) : t \in ProbeIPs \ {Some(<<10, 2, 3, 4>>)}}
    \cup {[type |-> "neighbor_discovery", target_ip |-> None, source_ip |-> None, ttl |-> 64]}

NextDevice ==
    \/ StartSimulation
    \/ StopSimulation
    \/ \E n \in IfNames \cup {"eth9"}, s \in InterfaceStates : SetInterfaceState("A", n, s)
    \/ \E m \in Messages :
          /\ Len(message_queue["A"]) < MaxInbox
          /\ packets_received["A"] + Len(message_queue["A"]) < MaxReceived
          /\ SendMessage("A", m)
    \/ DeviceLoopTest("A")
    \/ DeviceGet("A")
    \/ DeviceGetEmpty("A")

SpecDevice == Init /\ [][NextDevice]_vars

\* ------------------------------------------------------------- SpecPaused
\* A simulation that is started and then paused, and stays paused: messages
\* are enqueued on A and timed faults injected on A only while it is paused.
\* A timed fault is injected early enough for the clock to reach the expiry
\* pass that follows its deadline.  The device threads, the fault loop and the
\* clock are scheduled fairly.
PausedFaultInputs ==
    {"interface_down"} \X {"A"} \X {Some("eth0")} \X {Some(k) : k \in 1..MaxDuration}

PausedMessages ==
    {Ping(Some(<<192, 168, 1, 1>>), Some(<<192, 168, 1, 2>>)),
     [type |-> "neighbor_discovery", target_ip |-> None, source_ip |-> None, ttl |-> 64]}

NextPaused ==
    \/ StartSimulation
    \/ PauseSimulation
    \/ \E in \in PausedFaultInputs :
          /\ simulation_paused
          /\ now + Val(in[4]) + ExpirySleep <= MaxTime
          /\ InjectFault(in[1], in[2], in[3], in[4])
    \/ \E m \in PausedMessages :
          /\ simulation_paused
          /\ Len(message_queue["A"]) < MaxInbox
          /\ packets_received["A"] + Len(message_queue["A"]) < MaxReceived
          /\ SendMessage("A", m)
    \/ DeviceLoopTest("A")
    \/ DeviceGet("A")
    \/ DeviceGetEmpty("A")
    \/ ProcessFaults
    \/ AdvanceTime

SpecPaused ==
    /\ Init
    /\ [][NextPaused]_vars
    /\ WF_vars(DeviceLoopTest("A"))
    /\ WF_vars(DeviceGet("A"))
    /\ WF_vars(DeviceGetEmpty("A"))
    /\ WF_vars(ProcessFaults)
    /\ WF_vars(AdvanceTime)

\* -------------------------------------------------------------- SpecInbox
\* Two device actors (A and B), each with its run() loop, and two concurrent
\* enqueuers (B and C as sources) that put keepalive messages on either inbox
\* in any interleaving with the loops, before start, while running and after stop.
InboxMessages == {[type |-> "keepalive", source |-> h] : h \in {"B", "C"}}

NextInbox ==
    \/ StartSimulation
    \/ StopSimulation
    \/ \E d \in {"A", "B"} : \E m \in InboxMessages :
          /\ Len(message_queue[d]) < MaxInbox
          /\ Len(enqueued[d]) < MaxReceived
          /\ SendMessage(d, m)
    \/ \E d \in {"A", "B"} : DeviceLoopTest(d)
    \/ \E d \in {"A", "B"} : DeviceGet(d)
    \/ \E d \in {"A", "B"} : DeviceGetEmpty(d)

SpecInbox == Init /\ [][NextInbox]_vars

\* ------------------------------------------------------------- SpecStatus
\* Device A (a router) with its run() loop: get_status calls interleaved with
\* neighbor additions and removals, interface changes, and routing updates and
\* pings arriving on its inbox.
Route(destination, next_hop) == Some([destination |-> destination, next_hop |-> next_hop])

RoutingUpdate(route) == [type |-> "routing_update", route |-> route]

StatusMessages ==
    {RoutingUpdate(Route(Some("10.9.0.0"), Some("B"))),
     Ping(Some(<<192, 168, 1, 1>>), Some(<<192, 168, 1, 2>>))}

NextStatus ==
    \/ StartSimulation
    \/ AddNeighbor("A", "B")
    \/ RemoveNeighbor("A", "B")
    \/ \E st \in {UP, DOWN} : SetInterfaceState("A", "eth0", st)
    \/ \E m \in StatusMessages :
          /\ Len(message_queue["A"]) < MaxInbox
          /\ Len(enqueued["A"]) < MaxReceived
          /\ SendMessage("A", m)
    \/ DeviceLoopTest("A")
    \/ DeviceGet("A")
    \/ DeviceGetEmpty("A")
    \/ GetStatus("A")

SpecStatus == Init /\ [][NextStatus]_vars

\* ------------------------------------------------------------- SpecEvents
\* The orchestrator's send_packet between A, B and the unknown host Z, with
\* faults on both devices, A and B made neighbors or not, and the event loop
\* moving recorded events from the queue to the log.
MaxEvents == 3

EventFaultInputs ==
    ({"link_failure"} \X {"A"} \X {None} \X {None})
    \cup ({"interface_down"} \X {"B"} \X {None} \X {None})

PacketEnds == {"A", "B", "Z"}

NextEvents ==
    \/ StartSimulation
    \/ StopSimulation
    \/ \E in \in EventFaultInputs :
          /\ Len(event_queue) + Len(events) < MaxEvents
          /\ InjectFault(in[1], in[2], in[3], in[4])
    \/ \E sd \in PacketEnds : \E td \in PacketEnds \ {sd} :
          /\ td \in Devices => Len(message_queue[td]) < MaxInbox
          /\ Len(event_queue) + Len(events) < MaxEvents
          /\ SendPacket(sd, td, "ping", EmptyData)
    \/ AddNeighbor("A", "B")
    \/ AddNeighbor("B", "A")
    \/ EventLoopTest
    \/ EventLoopHandle
    \/ EventLoopEmpty

SpecEvents == Init /\ [][NextEvents]_vars

\* ------------------------------------------------------------ SpecRouting
\* Routing updates, well-formed or lacking a key, and pings enqueued on the
\* router A, and updates lacking a key enqueued on the switch B, while their
\* run() loops, fairly scheduled, process them.
RoutingMessages ==
    {RoutingUpdate(Route(Some("10.9.0.0"), Some("B"))),
     RoutingUpdate(Route(None, Some("B"))),
     RoutingUpdate(Route(Some("10.9.0.0"), None)),
     Ping(Some(<<192, 168, 1, 1>>), Some(<<192, 168, 1, 2>>))}

NextRouting ==
    \/ StartSimulation
    \/ \E m \in RoutingMessages :
          /\ Len(message_queue["A"]) < MaxInbox
          /\ Len(enqueued["A"]) < MaxReceived
          /\ SendMessage("A", m)
    \/ /\ Len(message_queue["B"]) < MaxInbox
       /\ Len(enqueued["B"]) < MaxReceived
       /\ SendMessage("B", RoutingUpdate(Route(None, Some("B"))))
    \/ \E d \in {"A", "B"} : DeviceLoopTest(d)
    \/ \E d \in {"A", "B"} : DeviceGet(d)
    \/ \E d \in {"A", "B"} : DeviceGetEmpty(d)

SpecRouting ==
    /\ Init
    /\ [][NextRouting]_vars
    /\ \A d \in {"A", "B"} :
          WF_vars(DeviceLoopTest(d)) /\ WF_vars(DeviceGet(d)) /\ WF_vars(DeviceGetEmpty(d))

\* --------------------------------------------------------------- SpecStop
\* Every device actor with its run() loop, start and stop calls in any order
\* and keepalive messages put on A's inbox before, during and after the run.
\* The device threads are scheduled fairly.
NextStop ==
    \/ StartSimulation
    \/ StopSimulation
    \/ \E m \in InboxMessages :
          /\ Len(message_queue["A"]) < MaxInbox
          /\ Len(enqueued["A"]) < MaxReceived
          /\ SendMessage("A", m)
    \/ \E d \in Devices : DeviceLoopTest(d)
    \/ \E d \in Devices : DeviceGet(d)
    \/ \E d \in Devices : DeviceGetEmpty(d)

SpecStop ==
    /\ Init
    /\ [][NextStop]_vars
    /\ \A d \in Devices :
          WF_vars(DeviceLoopTest(d)) /\ WF_vars(DeviceGet(d)) /\ WF_vars(DeviceGetEmpty(d))

\* ------------------------------------------------------------- SpecTarget
\* Interface faults of device A, timed and permanent, that name an interface
\* A owns (eth0), one it does not own (eth9) or none, under the clock.  Before
\* the first fault, A's interfaces are set administratively down or up by
\* direct set_interface_state calls.
TargetFaultInputs ==
    {"interface_down"} \X {"A"} \X {None, Some("eth0"), Some("eth9")} \X {None, Some(1)}

NextTarget ==
    \/ StartSimulation
    \/ \E n \in IfNames, s \in {ADMIN_DOWN, UP} :
          /\ fault_history = <<>>
          /\ SetInterfaceState("A", n, s)
    \/ \E in \in TargetFaultInputs : InjectFault(in[1], in[2], in[3], in[4])
    \/ ProcessFaults
    \/ AdvanceTime

SpecTarget == Init /\ [][NextTarget]_vars

\* ---------------------------------------------------------- SpecValidator
\* validate_network on topologies of three devices whose four interfaces carry
\* no address, one of two well-formed addresses or a malformed one, in every
\* combination.
ValidatorIPs ==
    {None, Some(<<192, 168, 1, 1>>), Some(<<10, 0, 0, 1>>), Some(<<192, 168, 1, 300>>)}

ValidatorInputs ==
    {[k \in DOMAIN ConfiguredInterfaces |->
        [ConfiguredInterfaces[k] EXCEPT !.ip_address = ips[k]]] :
     ips \in [DOMAIN ConfiguredInterfaces -> ValidatorIPs]}

InitValidator ==
    /\ InitSimulator
    /\ topology_interfaces \in ValidatorInputs
    /\ issues = None

NextValidator == ValidateNetwork

SpecValidator == InitValidator /\ [][NextValidator]_vars

\* -------------------------------------------------------------- SpecReach
\* Device A with its run() loop: its two interfaces are set to any state by
\* direct calls, and pings are enqueued whose target is missing, malformed
\* (three octets, an octet of 300), inside the network of eth0, inside the
\* network of eth1, or inside neither.
MaxProbes == 2

ReachProbes ==
    {None, Some(<<192, 168, 1>>), Some(<<192, 168, 1, 300>>),
     Some(<<192, 168, 1, 77>>), Some(<<10, 2, 3, 4>>), Some(<<172, 16, 0, 1>>)}

NextReach ==
    \/ StartSimulation
    \/ \E n \in IfNames, s \in InterfaceStates : SetInterfaceState("A", n, s)
    \/ \E t \in ReachProbes :
          /\ Len(enqueued["A"]) < MaxProbes
          /\ SendMessage("A", Ping(t, Some(<<192, 168, 1, 2>>)))
    \/ DeviceLoopTest("A")
    \/ DeviceGet("A")
    \/ DeviceGetEmpty("A")

SpecReach == Init /\ [][NextReach]_vars

\* -------------------------------------------------------------- SpecFrame
\* Permanent interface faults on A or B, on one interface or on all, injected
\* on devices whose neighbor lists were built by direct add_neighbor calls and
\* after A's second interface was set administratively down or up.
FrameFaultInputs ==
    {"interface_down"} \X {"A", "B"} \X TargetInterfaces \X {None}

NextFrame ==
    \/ \E d \in {"A", "B"} : \E h \in Devices \ {d} : AddNeighbor(d, h)
    \/ \E s \in {ADMIN_DOWN, UP} :
          /\ fault_history = <<>>
          /\ SetInterfaceState("A", "eth1", s)
    \/ \E in \in FrameFaultInputs : InjectFault(in[1], in[2], in[3], in[4])

SpecFrame == Init /\ [][NextFrame]_vars

\* ----------------------------------------------------------- SpecDispatch
\* Events of every aggregated kind and of other kinds are recorded (by
\* send_packet, by inject_fault and by direct _record_event calls), handlers
\* that return and handlers that raise are registered for a kind of the
\* initial table (packet_sent) and for one that is not in it (fault_injected),
\* while the event loop drains the queue and the statistics thread collects.
MaxHandlers == 2

RecordedKinds == {"error_occurred", "device_start", "device_stop"}

Handlers == {[id |-> "h1", raises |-> FALSE], [id |-> "h2", raises |-> TRUE]}

NextDispatch ==
    \/ StartSimulation
    \/ \E k \in RecordedKinds :
          /\ Len(event_queue) + Len(events) < MaxEvents
          /\ RecordEvent(k, "A", None)
    \/ /\ Len(event_queue) + Len(events) < MaxEvents
       /\ Len(message_queue["B"]) < MaxInbox
       /\ SendPacket("A", "B", "ping", EmptyData)
    \/ /\ Len(event_queue) + Len(events) < MaxEvents
       /\ InjectFault("high_cpu", "B", None, None)
    \/ \E h \in Handlers :
          /\ Len(HandlersFor("packet_sent")) < MaxHandlers
          /\ RegisterEventHandler("packet_sent", h)
    \/ /\ HandlersFor("fault_injected") = <<>>
       /\ RegisterEventHandler("fault_injected", [id |-> "h1", raises |-> FALSE])
    \/ EventLoopTest
    \/ EventLoopHandle
    \/ EventLoopEmpty
    \/ CollectStatistics

SpecDispatch == Init /\ [][NextDispatch]_vars

\* ------------------------------------------------------------ SpecCollect
\* The statistics thread beside the lifecycle calls in any order and the run()
\* loops of the three devices, which end one after the other once stopped; an
\* interface fault, a link fault and an add_neighbor call change interfaces,
\* neighbor lists and the active faults meanwhile.
CollectFaultInputs ==
    ({"interface_down"} \X {"A"} \X {Some("eth0")} \X {None})
    \cup ({"link_failure"} \X {"B"} \X {None} \X {None})

NextCollect ==
    \/ StartSimulation
    \/ StopSimulation
    \/ PauseSimulation
    \/ ResumeSimulation
    \/ \E d \in Devices : DeviceLoopTest(d)
    \/ \E d \in Devices : DeviceGetEmpty(d)
    \/ \E in \in CollectFaultInputs : InjectFault(in[1], in[2], in[3], in[4])
    \/ AddNeighbor("B", "A")
    \/ CollectStatistics

SpecCollect == Init /\ [][NextCollect]_vars

\* --------------------------------------------------------------- SpecRace
\* inject_fault in two steps (the appends, then the application), so that the
\* clock and the fault loop can run in between: timed interface faults on A's
\* eth0 and timed link faults on A or B.  The neighbor lists are built by
\* add_neighbor calls before the first fault, and a fault is injected only
\* when they are symmetric.
SymmetricNeighbors ==
    \A d \in Devices : \A h \in Devices :
        h \in Range(neighbors[d]) <=> d \in Range(neighbors[h])

RaceFaultInputs ==
    ({"interface_down"} \X {"A"} \X {Some("eth0")} \X {Some(1)})
    \cup ({"link_failure"} \X {"A", "B"} \X {None} \X {Some(1)})

NextRace ==
    \/ StartSimulation
    \/ \E pair \in {<<"A", "B">>, <<"B", "A">>, <<"B", "C">>, <<"C", "B">>} :
          /\ fault_history = <<>>
          /\ AddNeighbor(pair[1], pair[2])
    \/ \E in \in RaceFaultInputs :
          /\ SymmetricNeighbors
          /\ InjectFaultBegin(in[1], in[2], in[3], in[4])
    \/ InjectFaultFinish
    \/ ProcessFaults
    \/ AdvanceTime

SpecRace == Init /\ [][NextRace]_vars

\* --------------------------------------------------------------- SpecPing
\* Device A with its run() loop and its two interfaces set Up or Down by direct
\* calls: pings for an address inside A's eth0 network, or inside none of its
\* networks, reach A's inbox through send_packet from B (the addresses in
\* packet_data) or are enqueued on it directly.
PingTargets == {Some(<<192, 168, 1, 77>>), Some(<<172, 16, 0, 1>>)}

NextPing ==
    \/ StartSimulation
    \/ \E n \in IfNames, st \in {UP, DOWN} : SetInterfaceState("A", n, st)
    \/ \E t \in PingTargets :
          /\ Len(enqueued["A"]) < MaxProbes
          /\ SendPacket("B", "A", "ping", PingData(t, Some(<<192, 168, 1, 2>>)))
    \/ \E t \in PingTargets :
          /\ Len(enqueued["A"]) < MaxProbes
          /\ SendMessage("A", Ping(t, Some(<<192, 168, 1, 2>>)))
    \/ DeviceLoopTest("A")
    \/ DeviceGet("A")
    \/ DeviceGetEmpty("A")

SpecPing == Init /\ [][NextPing]_vars

\* ================================================================ claims
Last(seq) == seq[Len(seq)]
Active == Range(active_faults)

\* C1: a fault injected with a duration D at time t0 while the simulation is
\* running (and kept running) is in the active list at every time t with
\* t0 <= t < t0 + D, and is in it no more at any time later than t0 + D plus
\* one tick of the fault-expiry loop.
C1_TimedFaultWindow ==
    \A k \in DOMAIN fault_history :
        (fault_history[k].duration # None /\ fault_ghost[k].live) =>
            /\ now < fault_ghost[k].t0 + Val(fault_history[k].duration) => k \in Active
            /\ now > fault_ghost[k].t0 + Val(fault_history[k].duration) + ExpirySleep => k \notin Active

\* C2: a fault injected with no duration is never removed from the active list,
\* however many expiry passes run and whatever timed faults expire beside it.
C2_PermanentFaultStaysActive ==
    \A k \in DOMAIN fault_history : fault_history[k].duration = None => k \in Active

\* A permanent fault is still active after a timed fault injected after it has
\* been expired and removed by the loop.
C2_Witness ==
    \E k, j \in DOMAIN fault_history :
        /\ k < j
        /\ fault_history[k].duration = None
        /\ k \in Active
        /\ Truthy(fault_history[j].duration)
        /\ j \notin Active

\* C3: inject_fault naming a host that is not in the device table changes
\* neither the active list, the history, any interface, any neighbor list, the
\* event queue nor the event log.
C3_UnknownDeviceNoEffect ==
    [][\A in \in FaultInputs :
          (in[2] \notin Devices /\ InjectFault(in[1], in[2], in[3], in[4])) =>
              UNCHANGED <<active_faults, fault_history, interfaces, neighbors, event_queue, events>>]_vars

\* An inject_fault on an unknown host has returned "not found" in a state that
\* already holds a fault and its queued event.
C3_Witness ==
    /\ not_found
    /\ fault_history # <<>>
    /\ event_queue # <<>>

\* The step is a successful inject_fault of a link_failure on device a.
LinkFailureStep(a) ==
    /\ Len(fault_history') = Len(fault_history) + 1
    /\ Last(fault_history').fault_type = "link_failure"
    /\ Last(fault_history').target_device = a

\* C4 (as stated): after a link_failure is applied to A, A's neighbor list is
\* empty, no other device lists A, the neighbor relations among the other
\* devices are unchanged and no interface state is changed.
C4_NoDeviceListsTarget ==
    [][\A a \in Devices :
          LinkFailureStep(a) =>
              /\ neighbors'[a] = <<>>
              /\ \A b \in Devices : a \notin Range(neighbors'[b])
              /\ \A b \in Devices \ {a} : Range(neighbors'[b]) \ {a} = Range(neighbors[b]) \ {a}
              /\ interfaces' = interfaces]_vars

\* C4 (amended): after a link_failure is applied to A, A's neighbor list is
\* empty, every device that A listed lists A no more, a device that listed A
\* without being listed by A still lists A, the neighbor relations among the
\* other devices are unchanged and no interface state is changed.
C4_LinkFailureUnlinksListed ==
    [][\A a \in Devices :
          LinkFailureStep(a) =>
              /\ neighbors'[a] = <<>>
              /\ \A b \in Devices \ {a} :
                    a \in Range(neighbors'[b]) <=>
                        (a \in Range(neighbors[b]) /\ b \notin Range(neighbors[a]))
              /\ \A b \in Devices \ {a} : Range(neighbors'[b]) \ {a} = Range(neighbors[b]) \ {a}
              /\ \A b \in Devices \ {a} : Len(neighbors'[b]) = Cardinality(Range(neighbors'[b]))
              /\ interfaces' = interfaces]_vars

\* A link_failure with a target interface was applied to A while A listed two
\* devices and a third host; A lists nobody, B and C list each other but not A.
C4_Witness ==
    /\ fault_history # <<>>
    /\ Last(fault_history).fault_type = "link_failure"
    /\ Last(fault_history).target_device = "A"
    /\ Last(fault_history).target_interface = Some("eth0")
    /\ Last(fault_ghost).pre = 3
    /\ neighbors["A"] = <<>>
    /\ neighbors["B"] = <<"C">>
    /\ neighbors["C"] = <<"B">>

\* C5: when a timed link_failure on a device expires, the device's neighbors
\* are again its adjacency in the input topology, and each of them lists it.
C5_ExpiryRestoresTopologyNeighbors ==
    [][\A k \in Active :
          (fault_history[k].fault_type = "link_failure" /\ k \notin Range(active_faults')) =>
              LET d == fault_history[k].target_device IN
              /\ Range(neighbors'[d]) = TopologyAdjacency(d)
              /\ \A h \in TopologyAdjacency(d) : d \in Range(neighbors'[h])]_vars

\* The permanent interface_down faults that name an interface their device owns.
PermanentDownFaults ==
    {k \in DOMAIN fault_history :
        /\ fault_history[k].fault_type = "interface_down"
        /\ fault_history[k].duration = None
        /\ fault_history[k].target_interface # None
        /\ Val(fault_history[k].target_interface) \in DOMAIN interfaces[fault_history[k].target_device]}

FaultInterfaceState(k) ==
    interfaces[fault_history[k].target_device][Val(fault_history[k].target_interface)]

\* C6 (as stated): after interface_down is injected on an interface with no
\* duration, the interface is DOWN in every later state in which no explicit
\* set_interface_state call on it was made, whatever other faults are injected
\* or expire in between.
C6_PermanentDownUntilExplicit ==
    \A k \in PermanentDownFaults : ~fault_ghost[k].explicit => FaultInterfaceState(k) = DOWN

\* C6 (amended): ... the interface is DOWN in every later state in which no
\* explicit set_interface_state call on it was made and no timed interface_down
\* fault of the same device that targets this interface, or all interfaces,
\* has expired.
C6_PermanentDownUntilReverted ==
    \A k \in PermanentDownFaults :
        (~fault_ghost[k].explicit /\ ~fault_ghost[k].reverted) => FaultInterfaceState(k) = DOWN

\* A permanent interface_down on A's eth0 still holds after a timed
\* interface_down on A's other interface, injected later, has expired.
C6_Witness ==
    \E k \in PermanentDownFaults, j \in DOMAIN fault_history :
        /\ k < j
        /\ ~fault_ghost[k].explicit
        /\ ~fault_ghost[k].reverted
        /\ fault_history[j].fault_type = "interface_down"
        /\ fault_history[j].target_device = fault_history[k].target_device
        /\ Truthy(fault_history[j].duration)
        /\ j \notin Active
        /\ FaultInterfaceState(k) = DOWN

\* The probe addresses inside the network of interface n of device d.
ProbesInside(d, n) ==
    {t \in ProbeIPs \ {None} :
        InNetwork(Val(t), IfConfig[d][n].ip_address, IfConfig[d][n].subnet_mask)}

\* C7: set_interface_state(name, UP) on an owned interface (in particular after
\* set_interface_state(name, DOWN)) leaves it UP, and every address inside its
\* network is then reachable; after set_interface_state(name, DOWN) the
\* interface is DOWN and an address inside its network alone is not reachable.
C7_DownThenUp ==
    LET d == last.device
        n == last.name
    IN (last.device # "" /\ last.before # "absent") =>
        /\ last.state = UP =>
              /\ interfaces[d][n] = UP
              /\ \A t \in ProbesInside(d, n) : can_reach_ip(d, interfaces[d], t)
        /\ last.state = DOWN =>
              /\ interfaces[d][n] = DOWN
              /\ \A t \in ProbesInside(d, n) :
                    (\A m \in DOMAIN interfaces[d] \ {n} : t \notin ProbesInside(d, m)) =>
                        ~can_reach_ip(d, interfaces[d], t)

\* The latest call set A's eth0 UP when it was DOWN, while A's other interface
\* is not UP, and the address inside eth0's network is reachable.
C7_Witness ==
    /\ last = [device |-> "A", name |-> "eth0", state |-> UP, before |-> DOWN]
    /\ interfaces["A"]["eth1"] # UP
    /\ can_reach_ip("A", interfaces["A"], Some(<<192, 168, 1, 77>>))

\* The step dequeues and processes the head of device d's inbox.
ProcessStep(d) ==
    /\ message_queue[d] # <<>>
    /\ message_queue'[d] = Tail(message_queue[d])

\* C8: when a device with an UP interface whose network contains target_ip
\* processes a ping for target_ip, packets_received grows by exactly one and a
\* ping reply is built whose source_ip is the request's target_ip and whose
\* target_ip is the request's source_ip.
C8_PingReply ==
    [][\A d \in Devices :
          LET m == Head(message_queue[d]) IN
          (/\ ProcessStep(d)
           /\ m.type = "ping"
           /\ m.target_ip # None
           /\ \E n \in DOMAIN interfaces[d] :
                 interfaces[d][n] = UP /\ m.target_ip \in ProbesInside(d, n)) =>
              /\ packets_received'[d] = packets_received[d] + 1
              /\ last_reply'[d] # None
              /\ Val(last_reply'[d]).type = "ping_reply"
              /\ Val(last_reply'[d]).source_ip = m.target_ip
              /\ Val(last_reply'[d]).target_ip = m.source_ip]_vars

\* Device A has answered a ping for its own address 192.168.1.1.
C8_Witness ==
    /\ packets_received["A"] >= 1
    /\ last_reply["A"] # None
    /\ Val(last_reply["A"]).source_ip = Some(<<192, 168, 1, 1>>)
    /\ Val(last_reply["A"]).target_ip = Some(<<192, 168, 1, 2>>)

\* C9: the status taken right after start() (before any fault is injected)
\* lists every device of the input topology, each with as many neighbors as it
\* has adjacent devices in the input topology.
C9_StatusMatchesTopology ==
    (simulation_running /\ ~ever_stopped /\ fault_history = <<>>) =>
        \A d \in Devices :
            /\ d \in DOMAIN get_network_status.devices
            /\ Len(get_network_status.devices[d].neighbors) = Cardinality(TopologyAdjacency(d))

\* C10: once stop() has taken effect, no later start(), pause() or resume()
\* makes the simulation report running again.
C10_StoppedIsTerminal ==
    ever_stopped => ~get_network_status.simulation_running

\* C11: pausing suspends neither the device actors nor the fault-expiry loop:
\* while the simulation is paused, the n-th message enqueued on a running
\* device is eventually processed, and an active timed fault is eventually
\* reverted and removed from the active list.
C11_PauseSuspendsNothing ==
    /\ \A n \in 1..MaxReceived :
          (/\ simulation_paused
           /\ is_alive("A")
           /\ Len(processed["A"]) + Len(message_queue["A"]) >= n) ~> (Len(processed["A"]) >= n)
    /\ \A k \in 1..MaxFaults :
          (/\ simulation_paused
           /\ k \in Active
           /\ Truthy(fault_history[k].duration)) ~> (simulation_paused /\ k \notin Active)

\* While paused, A has processed a message enqueued during the pause, and a
\* timed interface fault injected during the pause has expired: the fault is
\* out of the active list and the interface is UP again.
C11_Witness ==
    /\ simulation_paused
    /\ Len(processed["A"]) >= 1
    /\ \E k \in DOMAIN fault_history :
          /\ Truthy(fault_history[k].duration)
          /\ k \notin Active
          /\ FaultInterfaceState(k) = UP


\* C12: each device processes the messages of its own inbox in exactly the
\* order they were enqueued, each at most once: at every moment the messages
\* processed so far followed by those still queued are the messages enqueued,
\* in their order of enqueueing.
C12_InboxIsFifo ==
    \A d \in Devices : processed[d] \o message_queue[d] = enqueued[d]

\* A has processed two different messages and holds a third one, while B has
\* processed a message of its own inbox.
C12_Witness ==
    /\ Len(processed["A"]) = 2
    /\ processed["A"][1] # processed["A"][2]
    /\ message_queue["A"] # <<>>
    /\ processed["B"] # <<>>

\* C13: send_message always succeeds (it is enabled in every state of the
\* device, not yet started, running or stopped, and for every inbox length),
\* it appends exactly one message to the target device's inbox, and it changes
\* nothing else.
C13_EnqueueAlwaysAppends ==
    /\ [](\A d \in {"A", "B"} : \A m \in InboxMessages : ENABLED SendMessage(d, m))
    /\ [][enqueued' # enqueued =>
            \E d \in Devices : \E m \in InboxMessages :
                /\ message_queue' = [message_queue EXCEPT ![d] = Append(message_queue[d], m)]
                /\ UNCHANGED <<flagVars, faultVars, eventVars, interfaces, neighbors,
                               dev_thread, dev_running, statVars, threadVars, status_taken>>]_vars

\* A, not yet started, holds the two messages enqueued on it: the second was
\* appended to a non-empty inbox of a device whose loop never ran.
C13_Witness ==
    /\ dev_thread["A"] = "new"
    /\ Len(message_queue["A"]) = MaxInbox
    /\ enqueued["A"] = message_queue["A"]

\* C14: set_interface_state with an interface name the device does not own is
\* a no-op: no interface is created and every existing interface keeps its
\* state; with a name the device owns, that interface takes the requested
\* state and no other interface of any device changes.
C14_SetInterfaceStateFrame ==
    [][last' # last =>
          LET d == last'.device
              n == last'.name
          IN /\ \A e \in Devices : DOMAIN interfaces'[e] = DOMAIN interfaces[e]
             /\ \A e \in Devices \ {d} : interfaces'[e] = interfaces[e]
             /\ \A i \in DOMAIN interfaces[d] \ {n} : interfaces'[d][i] = interfaces[d][i]
             /\ n \in DOMAIN interfaces[d] => interfaces'[d][n] = last'.state
             /\ n \notin DOMAIN interfaces[d] => interfaces' = interfaces]_vars

\* The latest call named eth9, which A does not own, while A's two interfaces
\* had been set to different states other than the initial one.
C14_Witness ==
    /\ last.device = "A"
    /\ last.name = "eth9"
    /\ last.before = "absent"
    /\ interfaces["A"]["eth0"] = DOWN
    /\ interfaces["A"]["eth1"] = ADMIN_DOWN

\* C15: add_neighbor and remove_neighbor are idempotent set operations: on
\* every neighbor list a device can hold, applying either twice with the same
\* host gives what applying it once gives, add yields the list's hosts plus the
\* host and remove the list's hosts without it, the list never holds a host
\* twice, and removing an absent host changes nothing.
C15_NeighborSetOperations ==
    \A d \in Devices : \A h \in Hosts :
        LET list == neighbors[d] IN
        /\ Cardinality(Range(list)) = Len(list)
        /\ add_neighbor(add_neighbor(list, h), h) = add_neighbor(list, h)
        /\ remove_neighbor(remove_neighbor(list, h), h) = remove_neighbor(list, h)
        /\ Range(add_neighbor(list, h)) = Range(list) \cup {h}
        /\ Range(remove_neighbor(list, h)) = Range(list) \ {h}
        /\ h \notin Range(list) => remove_neighbor(list, h) = list

\* A lists three hosts, B having been added last, while C lists nobody.
C15_Witness ==
    /\ neighbors["A"] = <<"C", "Z", "B">>
    /\ neighbors["B"] = <<"A">>
    /\ neighbors["C"] = <<>>

\* C16: the value returned by a device's status() is an immutable snapshot:
\* after it is returned, later neighbor additions and removals, routing-table
\* merges and statistics updates on the device do not change the neighbors,
\* routing table and statistics held in the returned value.
C16_StatusIsSnapshot ==
    \A d \in Devices :
        status_taken[d] # None =>
            /\ returned_status(d).neighbors = Val(status_taken[d]).neighbors
            /\ returned_status(d).routing_table = Val(status_taken[d]).routing_table
            /\ returned_status(d).statistics = Val(status_taken[d]).statistics

\* C17: send_packet in which the source or the target is not in the device
\* table has no effect: no message is enqueued on any inbox and no packet_sent
\* event is recorded, neither queued nor logged.
C17_UnknownEndNoEffect ==
    [][\A sd \in PacketEnds : \A td \in PacketEnds :
          ((sd \notin Devices \/ td \notin Devices) /\ SendPacket(sd, td, "ping", EmptyData)) =>
              UNCHANGED <<message_queue, enqueued, event_queue, events>>]_vars

\* A send_packet naming the unknown host has returned "not found" after a
\* packet from A was delivered to B and its event queued or logged.
C17_Witness ==
    /\ not_found
    /\ message_queue["B"] # <<>>
    /\ \E e \in Range(events \o event_queue) : e.event_type = "packet_sent"

\* The events recorded so far, logged or still queued, in order of recording.
Recorded == events \o event_queue

\* The step puts a message on an inbox or records a packet_sent event.
PacketStep ==
    \/ enqueued' # enqueued
    \/ /\ Len(Recorded') > Len(Recorded)
       /\ Last(Recorded').event_type = "packet_sent"

\* C18: send_packet between two existing devices is possible whether or not
\* they are neighbors, whatever the interface states and whether or not a
\* link_failure is active on either; it enqueues exactly one message, on the
\* target's inbox and on no other, and records exactly one packet_sent event.
C18_PacketBypassesTopology ==
    /\ [](\A sd \in Devices : \A td \in Devices \ {sd} :
             ENABLED (SendPacket(sd, td, "ping", EmptyData) /\ enqueued'[td] # enqueued[td]))
    /\ [][PacketStep =>
            \E sd \in Devices : \E td \in Devices :
                /\ message_queue' = [message_queue EXCEPT ![td] =
                                        Append(message_queue[td], Packet("ping", sd, td, now, EmptyData))]
                /\ event_queue' = Append(event_queue, NewEvent("packet_sent", sd, Some(td)))
                /\ events' = events]_vars

\* A packet from A was recorded and delivered to B after a link_failure on A
\* and an interface_down on all of B's interfaces were injected, A and B not
\* being neighbors.
C18_Witness ==
    /\ Len(Recorded) = 3
    /\ Recorded[1].event_type = "fault_injected"
    /\ Recorded[2].event_type = "fault_injected"
    /\ Recorded[3] = NewEvent("packet_sent", "A", Some("B"))
    /\ Len(active_faults) = 2
    /\ interfaces["B"]["eth0"] = DOWN
    /\ "B" \notin Range(neighbors["A"])
    /\ message_queue["B"] = <<Packet("ping", "A", "B", now, EmptyData)>>

\* The queries enumerated: no kind or one of the two kinds recorded, and no
\* limit or a limit from 0 up.
QueryKinds == {None, Some("packet_sent"), Some("fault_injected")}
QueryLimits == {None} \cup {Some(n) : n \in 0..MaxEvents}

\* The logged events of the kind, in insertion order.
Matching(kind) ==
    IF kind = None THEN events ELSE SelectSeq(events, LAMBDA e : e.event_type = Val(kind))

\* C19: events(kind, limit) returns the logged events of the given kind (all
\* events when no kind is given) in insertion order, and when a limit n is
\* given only the n most recent of them, so that the result never has more
\* than n elements, for every n >= 0.
C19_QueryTruncatesToLimit ==
    \A kind \in QueryKinds : \A limit \in QueryLimits :
        LET result == get_simulation_events(kind, limit)
            all == Matching(kind)
        IN /\ limit = None => result = all
           /\ limit # None =>
                 /\ Len(result) <= Val(limit)
                 /\ result = SubSeq(all, Len(all) - Len(result) + 1, Len(all))
                 /\ Len(result) = Val(limit) \/ result = all

\* A routing_update whose route has one of its two keys but not the other.
LacksKey(m) ==
    /\ m.type = "routing_update"
    /\ m.route # None
    /\ (Val(m.route).destination = None) # (Val(m.route).next_hop = None)

\* The number of messages of the list that lack a key.
RECURSIVE CountLacking(_)
CountLacking(list) ==
    IF list = <<>> THEN 0
    ELSE (IF LacksKey(Head(list)) THEN 1 ELSE 0) + CountLacking(Tail(list))

\* C20: an exception raised while a device processes one message (a
\* routing_update, on a router, whose route lacks destination or next_hop) is
\* caught: the device's error counter grows by exactly one (it counts the
\* messages that raised, and nothing else), the actor keeps running with the
\* rest of its inbox intact, and every message enqueued on a running device,
\* those behind the failing one included, is eventually processed.
C20_ExceptionIsCaught ==
    /\ [][\A d \in Devices :
            (/\ ProcessStep(d)
             /\ DeviceTypes[d] = "router"
             /\ LacksKey(Head(message_queue[d]))) =>
                /\ errors'[d] = errors[d] + 1
                /\ is_alive(d)'
                /\ dev_running'[d] = dev_running[d]
                /\ message_queue'[d] = Tail(message_queue[d])
                /\ routing_table'[d] = routing_table[d]]_vars
    /\ [](\A d \in Devices :
            errors[d] = IF DeviceTypes[d] = "router" THEN CountLacking(processed[d]) ELSE 0)
    /\ \A d \in {"A", "B"} : \A n \in 1..MaxReceived :
          (is_alive(d) /\ Len(enqueued[d]) >= n) ~> (Len(processed[d]) >= n)

\* The router A has processed a routing update lacking its destination, counted
\* one error, then processed the well-formed update queued behind it, and is
\* still alive.
C20_Witness ==
    /\ processed["A"] = <<RoutingUpdate(Route(None, Some("B"))),
                          RoutingUpdate(Route(Some("10.9.0.0"), Some("B")))>>
    /\ errors["A"] = 1
    /\ routing_table["A"] = {<<"10.9.0.0", "B">>}
    /\ is_alive("A")

\* C21: once stop() has taken effect on a running simulation, every device
\* actor eventually leaves its loop for good.  A device whose stop flag is set
\* processes a message only to finish the iteration it was in (it was past the
\* loop test), the loop test that sees the flag ends the thread and leaves the
\* inbox as it is, and a thread that has ended never processes again: what is
\* in its inbox, and what is put there later, stays there.  stop() does not
\* wait for any of this (join has a timeout), so it is enabled in every state.
C21_StopTerminates ==
    /\ \A d \in Devices : ever_stopped ~> [](~is_alive(d))
    /\ [](ENABLED StopSimulation)
    /\ [][\A d \in Devices :
            /\ (~dev_running[d] /\ processed'[d] # processed[d]) => dev_thread[d] = "get"
            /\ (~dev_running[d] /\ dev_thread[d] = "test") =>
                  /\ dev_thread'[d] \in {"test", "dead"}
                  /\ processed'[d] = processed[d]
            /\ (~dev_running[d] /\ dev_thread[d] = "test" /\ dev_thread'[d] = "dead") =>
                  message_queue'[d] = message_queue[d]
            /\ dev_thread[d] = "dead" =>
                  /\ dev_thread'[d] = "dead"
                  /\ processed'[d] = processed[d]
                  /\ Len(message_queue'[d]) >= Len(message_queue[d])
                  /\ SubSeq(message_queue'[d], 1, Len(message_queue[d])) = message_queue[d]]_vars

\* After a stop, device A's thread has ended having processed a message, and
\* a message is still in its inbox.
C21_Witness ==
    /\ ever_stopped
    /\ dev_thread["A"] = "dead"
    /\ processed["A"] # <<>>
    /\ message_queue["A"] # <<>>

\* C22: every fault of the history (the active faults are among them) that has
\* a duration, 0 included, has a start time, and every fault without a duration
\* has none.
C22_DurationHasStartTime ==
    \A k \in DOMAIN fault_history :
        fault_history[k].duration # None <=> fault_history[k].start_time # None

\* C23: an inject_fault call naming a device of the table appends the new fault
\* to the history and to the active list; the history only ever grows at its
\* end; every active fault is a fault of the history; and a fault leaves the
\* active list only in a pass of the fault-expiry loop, and only if it has a
\* duration and a start time with now - start_time >= duration.
C23_ActiveWithinHistory ==
    /\ [](Active \subseteq DOMAIN fault_history)
    /\ [][/\ Len(fault_history') >= Len(fault_history)
          /\ SubSeq(fault_history', 1, Len(fault_history)) = fault_history
          /\ \A in \in FaultInputs :
                (in[2] \in Devices /\ InjectFault(in[1], in[2], in[3], in[4])) =>
                    /\ Len(fault_history') = Len(fault_history) + 1
                    /\ Last(fault_history').fault_type = in[1]
                    /\ Last(fault_history').target_device = in[2]
                    /\ Last(fault_history').target_interface = in[3]
                    /\ Last(fault_history').duration = in[4]
                    /\ active_faults' = Append(active_faults, Len(fault_history'))
          /\ \A k \in Active :
                k \notin Range(active_faults') =>
                    /\ fault_thread = "alive"
                    /\ fault_wake' = now + ExpirySleep
                    /\ fault_history[k].duration # None
                    /\ fault_history[k].start_time # None
                    /\ now - Val(fault_history[k].start_time) >= Val(fault_history[k].duration)]_vars

\* Two faults are in the history; the first has expired and left the active
\* list, the second is still active.
C23_Witness ==
    /\ Len(fault_history) = 2
    /\ active_faults = <<2>>

\* C24: inject_fault of interface_down on a device of the table, naming an
\* interface that device does not own, changes nothing: no fault is added to
\* the active list or to the history, no event is put on the event queue, and
\* no interface changes state.
C24_UnownedInterfaceNoEffect ==
    [][\A in \in TargetFaultInputs :
          (/\ in[2] \in Devices
           /\ in[3] # None
           /\ Val(in[3]) \notin DOMAIN interfaces[in[2]]
           /\ InjectFault(in[1], in[2], in[3], in[4])) =>
              UNCHANGED <<active_faults, fault_history, event_queue, interfaces>>]_vars

\* The issues of the latest validate_network whose message is "Duplicate IP
\* address ...", in the order reported.
DuplicateReports ==
    SelectSeq(Val(issues), LAMBDA i : i.message[1] = "Duplicate IP address")

\* The positions of the interfaces whose non-empty address is carried by an
\* interface before them.
AlreadySeen ==
    {k \in DOMAIN topology_interfaces :
        /\ topology_interfaces[k].ip_address # None
        /\ \E j \in 1..(k - 1) :
              topology_interfaces[j].ip_address = topology_interfaces[k].ip_address}

\* The n-th smallest element of a set of numbers.
RECURSIVE Nth(_, _)
Nth(set, n) ==
    LET least == CHOOSE k \in set : \A j \in set : k <= j
    IN IF n = 1 THEN least ELSE Nth(set \ {least}, n - 1)

\* C25: validate_network reports a "Duplicate IP address" issue exactly when
\* two interfaces of the topology, of one device or of two, carry the same
\* non-empty address: none when the addresses are all distinct, and otherwise
\* one issue for each interface whose address was already seen, in order, each
\* naming that address, that interface and its device.
C25_DuplicateIpReported ==
    issues # None =>
        /\ (DuplicateReports # <<>>) <=>
              \E j, k \in DOMAIN topology_interfaces :
                  /\ j # k
                  /\ topology_interfaces[j].ip_address # None
                  /\ topology_interfaces[j].ip_address = topology_interfaces[k].ip_address
        /\ Len(DuplicateReports) = Cardinality(AlreadySeen)
        /\ \A n \in DOMAIN DuplicateReports :
              LET interface == topology_interfaces[Nth(AlreadySeen, n)] IN
              /\ DuplicateReports[n].message[2] = interface.ip_address
              /\ DuplicateReports[n].affected_devices[1] = interface.hostname
              /\ DuplicateReports[n].affected_interfaces[1] = interface.name

\* Three interfaces, on two devices, carry 192.168.1.1 and the fourth has no
\* address: two duplicates are reported, both for 192.168.1.1.
C25_Witness ==
    /\ issues # None
    /\ Len(DuplicateReports) = 2
    /\ \A n \in 1..2 : DuplicateReports[n].message[2] = Some(<<192, 168, 1, 1>>)
    /\ \E k \in DOMAIN topology_interfaces : topology_interfaces[k].ip_address = None
    /\ {DuplicateReports[n].affected_devices[1] : n \in 1..2} = {"A", "B"}

\* The kinds process_message dispatches on.
HandledKinds == {"arp_request", "ospf_hello", "routing_update", "ping"}

\* C26: when a device processes a message of a kind process_message does not
\* handle (a neighbor_discovery message), its error counter grows by one, the
\* message leaves the inbox, no interface, neighbor list or routing table
\* changes, and the actor keeps running.
C26_UnknownKindCounted ==
    [][\A d \in Devices :
          (ProcessStep(d) /\ Head(message_queue[d]).type \notin HandledKinds) =>
              /\ errors'[d] = errors[d] + 1
              /\ message_queue'[d] = Tail(message_queue[d])
              /\ UNCHANGED <<interfaces, neighbors, routing_table>>
              /\ is_alive(d)']_vars

\* The targets the networks of A's interfaces contain: eth0 is 192.168.1.1/24
\* and eth1 is 10.0.0.1/8.
ContainedBy ==
    [eth0 |-> {Some(<<192, 168, 1, 77>>)}, eth1 |-> {Some(<<10, 2, 3, 4>>)}]

\* Device A has an interface that is UP and whose network contains the target.
ReachableFromA(t) ==
    \E n \in DOMAIN interfaces["A"] : interfaces["A"][n] = UP /\ t \in ContainedBy[n]

\* C27: the device can reach an address if and only if one of its interfaces
\* is UP and its network contains the address (an interface that is DOWN or
\* ADMIN_DOWN does not count); a missing or malformed address is not reachable,
\* and a ping for it is processed without an error being counted: the ping is
\* answered exactly when its target is reachable.
C27_ReachableIffUpInterface ==
    /\ [](\A t \in ReachProbes :
            can_reach_ip("A", interfaces["A"], t) <=> ReachableFromA(t))
    /\ [][(ProcessStep("A") /\ Head(message_queue["A"]).type = "ping") =>
            /\ last_reply'["A"] # None <=> ReachableFromA(Head(message_queue["A"]).target_ip)
            /\ errors'["A"] = errors["A"]
            /\ is_alive("A")']_vars

\* With eth0 administratively down and eth1 up, A has processed a ping for a
\* malformed address and then answered a ping for an address of eth1's
\* network, while the address of eth0's network is not reachable.
C27_Witness ==
    /\ interfaces["A"] = [eth0 |-> ADMIN_DOWN, eth1 |-> UP]
    /\ Len(processed["A"]) = 2
    /\ processed["A"][1].target_ip = Some(<<192, 168, 1, 300>>)
    /\ processed["A"][2].target_ip = Some(<<10, 2, 3, 4>>)
    /\ last_reply["A"] # None
    /\ errors["A"] = 0
    /\ ~can_reach_ip("A", interfaces["A"], Some(<<192, 168, 1, 77>>))

\* C28: applying interface_down with a target interface the device owns sets
\* that interface of the target device to DOWN and leaves every other interface
\* of the device as it was; applying it without a target interface sets every
\* interface of the target device to DOWN; either way no interface of another
\* device and no neighbor list changes.
C28_InterfaceDownFrame ==
    [][\A in \in FrameFaultInputs :
          InjectFault(in[1], in[2], in[3], in[4]) =>
              LET d == in[2] IN
              /\ neighbors' = neighbors
              /\ \A e \in Devices \ {d} : interfaces'[e] = interfaces[e]
              /\ DOMAIN interfaces'[d] = DOMAIN interfaces[d]
              /\ (in[3] # None /\ Val(in[3]) \in DOMAIN interfaces[d]) =>
                    /\ interfaces'[d][Val(in[3])] = DOWN
                    /\ \A n \in DOMAIN interfaces[d] \ {Val(in[3])} :
                          interfaces'[d][n] = interfaces[d][n]
              /\ in[3] = None => \A n \in DOMAIN interfaces[d] : interfaces'[d][n] = DOWN]_vars

\* A's eth1 was set administratively down, A and B then learnt neighbors, and
\* two faults were injected: one on A's eth0, which is DOWN while eth1 is
\* still ADMIN_DOWN, and one on B without a target interface.
C28_Witness ==
    /\ Len(fault_history) = 2
    /\ fault_history[1].target_device = "A"
    /\ fault_history[1].target_interface = Some("eth0")
    /\ fault_history[2].target_device = "B"
    /\ fault_history[2].target_interface = None
    /\ interfaces["A"] = [eth0 |-> DOWN, eth1 |-> ADMIN_DOWN]
    /\ interfaces["B"]["eth0"] = DOWN
    /\ interfaces["C"]["eth0"] = UP
    /\ neighbors["A"] = <<"B", "C">>
    /\ neighbors["B"] = <<"A">>

\* The kinds _apply_fault has a branch for.
KnownFaultKinds == {"interface_down", "link_failure", "high_cpu", "memory_leak", "packet_loss"}

\* C29: injecting, on a device of the table, a fault of kind high_cpu,
\* memory_leak or packet_loss, or of a kind _apply_fault does not know, changes
\* no interface state, no neighbor list and no routing table; and for a kind
\* it does not know nothing changes at all: the active list, the history and
\* the event queue stay as they were too.
C29_StressAndUnknownFrame ==
    [][\A in \in FaultInputs :
          (in[2] \in Devices /\ InjectFault(in[1], in[2], in[3], in[4])) =>
              /\ in[1] \notin {"interface_down", "link_failure"} =>
                    UNCHANGED <<interfaces, neighbors, routing_table>>
              /\ in[1] \notin KnownFaultKinds =>
                    UNCHANGED <<active_faults, fault_history, event_queue, events,
                                interfaces, neighbors, actorVars>>]_vars

\* The faults of the history that take interface n of device d down.
Covering(d, n) ==
    {k \in DOMAIN fault_history :
        /\ fault_history[k].fault_type = "interface_down"
        /\ fault_history[k].target_device = d
        /\ fault_history[k].target_interface \in {None, Some(n)}}

\* C30: the pass of the fault loop that reverts an interface_down fault leaves
\* the fault's target interface (every interface of the device when the fault
\* has no target interface) UP.  The state before the fault does not matter:
\* an interface that a direct call had set ADMIN_DOWN before any fault was
\* injected is UP once the faults that took it down have all been reverted.
C30_RevertSetsUp ==
    /\ [][\A k \in Active :
            (k \notin Range(active_faults') /\ fault_history[k].fault_type = "interface_down") =>
                LET d == fault_history[k].target_device
                    ti == fault_history[k].target_interface
                IN /\ ti = None => \A n \in DOMAIN interfaces[d] : interfaces'[d][n] = UP
                   /\ (ti # None /\ Val(ti) \in DOMAIN interfaces[d]) =>
                         interfaces'[d][Val(ti)] = UP]_vars
    /\ []((/\ last.device = "A"
           /\ last.state = ADMIN_DOWN
           /\ Covering("A", last.name) # {}
           /\ Covering("A", last.name) \cap Active = {}) =>
              interfaces["A"][last.name] = UP)

\* A's eth0 was set ADMIN_DOWN, then a timed interface_down fault on eth0 was
\* injected and has expired: eth0 is UP.
C30_Witness ==
    /\ last.device = "A"
    /\ last.name = "eth0"
    /\ last.state = ADMIN_DOWN
    /\ Len(fault_history) = 1
    /\ fault_history[1].target_interface = Some("eth0")
    /\ active_faults = <<>>
    /\ interfaces["A"]["eth0"] = UP

\* The number of events of a kind in a log.
CountKind(log, kind) == Cardinality({k \in DOMAIN log : log[k].event_type = kind})

\* 1 if the event is of the kind, 0 otherwise.
OneIf(event, kind) == IF event.event_type = kind THEN 1 ELSE 0

\* C31: the step that aggregates an event adds one to total_packets for a
\* packet_sent event, one to total_errors for an error_occurred event, one to
\* devices_online for a device_start event, one to devices_offline for a
\* device_stop event, and changes no other counter (none at all for an event of
\* another kind); total_packets and total_errors never decrease, and
\* total_packets equals the number of packet_sent events of the log.
C31_AggregationCounters ==
    /\ [][events' # events =>
            LET e == Last(events') IN
            /\ statistics'.total_packets = statistics.total_packets + OneIf(e, "packet_sent")
            /\ statistics'.total_errors = statistics.total_errors + OneIf(e, "error_occurred")
            /\ statistics'.devices_online = statistics.devices_online + OneIf(e, "device_start")
            /\ statistics'.devices_offline = statistics.devices_offline + OneIf(e, "device_stop")
            /\ statistics'.links_active = statistics.links_active
            /\ statistics'.links_failed = statistics.links_failed]_vars
    /\ [][/\ statistics'.total_packets >= statistics.total_packets
          /\ statistics'.total_errors >= statistics.total_errors]_vars
    /\ [](statistics.total_packets = CountKind(events, "packet_sent"))
    /\ [](statistics.total_errors = CountKind(events, "error_occurred"))

\* A packet_sent, an error_occurred and a fault_injected event have been
\* aggregated: one packet and one error are counted.
C31_Witness ==
    /\ Len(events) = 3
    /\ CountKind(events, "packet_sent") = 1
    /\ CountKind(events, "error_occurred") = 1
    /\ CountKind(events, "fault_injected") = 1
    /\ statistics.total_packets = 1
    /\ statistics.total_errors = 1

\* The number of device threads that are alive.
AliveCount == Cardinality({d \in Devices : is_alive(d)})

\* C32: a pass of the statistics thread (an iteration made while the
\* simulation is running and not paused) leaves devices_online equal to the
\* number of devices whose thread is alive and devices_offline equal to the
\* number of the others; of the topology's links (every pair of the three
\* devices, and one link to a host that is no device) it counts as active
\* those whose two ends are devices and alive, that is one per pair of alive
\* devices, and as failed the rest.  Interfaces, neighbor lists and active
\* faults take no part.
C32_CollectedCounts ==
    [][(CollectStatistics /\ simulation_running /\ ~simulation_paused) =>
          /\ statistics'.devices_online = AliveCount'
          /\ statistics'.devices_online + statistics'.devices_offline = Cardinality(Devices)
          /\ statistics'.links_active = (AliveCount' * (AliveCount' - 1)) \div 2
          /\ statistics'.links_active + statistics'.links_failed = Len(TopologyLinks)
          /\ \A k \in DOMAIN TopologyLinks :
                TopologyLinks[k].target_device \notin Devices => statistics'.links_failed >= 1]_vars

\* A pass has counted two devices online and one offline, one link active and
\* three failed, while A's eth0 is down under an active fault and B has a neighbor.
C32_Witness ==
    /\ statistics.devices_online = 2
    /\ statistics.devices_offline = 1
    /\ statistics.links_active = 1
    /\ statistics.links_failed = 3
    /\ AliveCount = 2
    /\ interfaces["A"]["eth0"] = DOWN
    /\ active_faults # <<>>
    /\ neighbors["B"] # <<>>

\* C33: the step that drains an event appends it to the log, calls every
\* handler registered for its kind once, in registration order and whether or
\* not an earlier handler raised, calls no other handler, updates the counters
\* for the event, and returns to the loop test of the dispatch loop.
C33_HandlersAllInvoked ==
    [][events' # events =>
          LET e == Head(event_queue)
              hs == HandlersFor(e.event_type)
              before == Len(handler_calls)
          IN /\ events' = Append(events, e)
             /\ Len(handler_calls') = before + Len(hs)
             /\ SubSeq(handler_calls', 1, before) = handler_calls
             /\ \A i \in DOMAIN hs : handler_calls'[before + i] = <<hs[i].id, Len(events')>>
             /\ statistics'.total_packets = statistics.total_packets + OneIf(e, "packet_sent")
             /\ statistics'.total_errors = statistics.total_errors + OneIf(e, "error_occurred")
             /\ event_thread' = "check"]_vars

\* A packet_sent event was drained with the raising handler h2 registered
\* before h1: both were called for it, h2 first, the packet was counted and
\* the dispatch loop is still running.
C33_Witness ==
    /\ event_handlers["packet_sent"] = <<[id |-> "h2", raises |-> TRUE], [id |-> "h1", raises |-> FALSE]>>
    /\ \E p \in DOMAIN events :
          /\ events[p].event_type = "packet_sent"
          /\ handler_calls = <<<<"h2", p>>, <<"h1", p>>>>
    /\ statistics.total_packets = 1
    /\ event_thread \in {"check", "wait"}

\* C34: the events recorded so far, logged or still queued, form one sequence
\* in order of recording that only grows, by one event at its end per
\* recording; the log is its front part, and a step changes the log only by
\* appending to it the oldest event still queued.  So every logged event was
\* recorded, is logged once, and keeps its place, and the events of one caller
\* are logged in the order that caller recorded them.
C34_LogAppendOnly ==
    [][/\ \/ events' = events
          \/ /\ event_queue # <<>>
             /\ events' = Append(events, Head(event_queue))
             /\ event_queue' = Tail(event_queue)
       /\ \/ Recorded' = Recorded
          \/ /\ Len(Recorded') = Len(Recorded) + 1
             /\ SubSeq(Recorded', 1, Len(Recorded)) = Recorded
             /\ events' = events]_vars

\* An error_occurred event and then a packet_sent event are logged in the
\* order they were recorded, and a device_stop event recorded after them is
\* still queued.
C34_Witness ==
    /\ Len(events) = 2
    /\ events[1].event_type = "error_occurred"
    /\ events[2].event_type = "packet_sent"
    /\ Len(event_queue) = 1
    /\ event_queue[1].event_type = "device_stop"

\* C35: whenever a timed interface_down fault is no longer in the active list,
\* no inject_fault call is in progress and no other interface_down fault of the
\* history targets its interface, that interface is UP: the fault loop
\* reverting a fault that inject_fault has appended and not applied yet never
\* leaves the fault's effect in force.
C35_RevertedFaultLeavesUp ==
    \A k \in DOMAIN fault_history :
        LET d == fault_history[k].target_device
            ti == fault_history[k].target_interface
        IN (/\ fault_history[k].fault_type = "interface_down"
            /\ Truthy(fault_history[k].duration)
            /\ ti # None
            /\ k \notin Active
            /\ injecting = None
            /\ Covering(d, Val(ti)) = {k}) =>
               interfaces[d][Val(ti)] = UP

\* C36: once a fault has been injected on a symmetric adjacency, in every
\* state in which no inject_fault call is between its appends and its
\* application (a reversion is one step of the fault loop), B is in A's
\* neighbor list if and only if A is in B's, whatever the interleaving of link
\* fault injections with the expiry passes that revert them.
C36_NeighborsStaySymmetric ==
    (fault_history # <<>> /\ injecting = None) => SymmetricNeighbors

\* Two timed link faults, on A and on the adjacent B, were appended at the
\* same clock value, each on a device that had neighbors; both calls have
\* returned (their events are queued) and the fault loop has reverted both.
C36_Witness ==
    /\ Len(fault_history) = 2
    /\ fault_history[1].fault_type = "link_failure" /\ fault_history[1].target_device = "A"
    /\ fault_history[2].fault_type = "link_failure" /\ fault_history[2].target_device = "B"
    /\ fault_history[1].start_time = fault_history[2].start_time
    /\ fault_ghost[1].pre > 0
    /\ fault_ghost[2].pre > 0
    /\ Len(event_queue) = 2
    /\ active_faults = <<>>
    /\ injecting = None
    /\ SymmetricNeighbors

\* C37: in every reachable state the paused flag implies the running flag, in
\* particular after stop_simulation is called on a paused simulation.
C37_PausedImpliesRunning ==
    simulation_paused => simulation_running

C39_EnqueuedEventuallyCounted ==
    /\ \A d \in Devices : \A n \in 1..MaxReceived :
          (is_alive(d) /\ dev_running[d] /\ Len(enqueued[d]) >= n)
             ~> (packets_received[d] >= n \/ ~dev_running[d])
    /\ [](\A d \in Devices : packets_received[d] <= Len(enqueued[d]))

\* Device A, alive and not stopped, has counted every one of the MaxReceived
\* messages that were enqueued on it, and its inbox is empty.
C39_Witness ==
    /\ is_alive("A")
    /\ dev_running["A"]
    /\ Len(enqueued["A"]) = MaxReceived
    /\ packets_received["A"] = MaxReceived
    /\ message_queue["A"] = <<>>

\* The message is an envelope built by send_packet for a ping.
IsPacketPing(m) == m.type = "ping" /\ "data" \in DOMAIN m

\* C40: when a device processes a ping delivered through send_packet whose
\* data holds a target_ip inside the network of one of the device's Up
\* interfaces, it builds the ping reply that the same ping enqueued directly
\* on its inbox makes it build.
C40_PacketPingAnswered ==
    [][\A d \in Devices :
          (/\ ProcessStep(d)
           /\ IsPacketPing(Head(message_queue[d]))
           /\ can_reach_ip(d, interfaces[d], Head(message_queue[d]).data.target_ip)) =>
              last_reply'[d] = handle_ping(d, interfaces[d],
                                           Ping(Head(message_queue[d]).data.target_ip,
                                                Head(message_queue[d]).data.source_ip))]_vars

=============================================================================
